---- MODULE Spec2Model ----
(***************************************************************************)
(* ImageSimilaritySearcher (src/image_searcher.py): the image_features     *)
(* table, the per-record OCR job state machine driven by                   *)
(* process_ocr_pending_images, the manual overrides, and the archiving of  *)
(* the download folder (src/telegram_bot.py) that rewrites file paths.     *)
(*                                                                         *)
(* Every store operation of the searcher runs inside `with self._db_lock`  *)
(* and commits or rolls back before it leaves the lock, so each one is one *)
(* atomic action.  process_ocr_pending_images releases the lock between    *)
(* its claim and each per-record write, so a batch is a sequence of        *)
(* actions that other threads interleave with.                             *)
(*                                                                         *)
(* A text is a sequence of characters; a character is named by a string.   *)
(***************************************************************************)
EXTENDS Naturals, Integers, Sequences, FiniteSets, TLC

VARIABLES
    image_features,   \* the table: id -> row, for the ids that exist
    sqlite_sequence,  \* AUTOINCREMENT: the largest id ever assigned
    files,            \* the file system: path -> "missing" | "empty" | the content hash of an image
    ocr_engine,       \* self.ocr_engine: "None" | "loaded" | "deleted" (attribute removed)
    pc,               \* each batch thread's position in process_ocr_pending_images
    pending_images,   \* each batch thread's claimed (id, file_path) pairs still to process
    stats,            \* each batch thread's stats dictionary (at a return: the value returned)
    archive_moves,    \* old_new_paths_for_db of an archiving run between its moves and its store update
    last_override,    \* the last manual override, as logged; "none" once another step follows
    last_claim,       \* the arguments of the batch call just begun; "none" once another step follows
    calls,            \* calls of process_ocr_pending_images made so far
    events,           \* events so far (see MaxEvents)
    call,             \* a query on the store: the operation and its arguments
    ret,              \* what that query returned, once it has
    image_text_search, \* the FTS5 index: rowid -> the (file_path, ocr_text) indexed under it
    _db_lock,         \* self._db_lock: the thread that holds it, or "free"
    conn,             \* self.conn: open or closed, in a transaction or not, the thread that used it last
    threads,          \* each caller thread's position in the store operation it runs
    task              \* scheduled_ocr_task: its position and what the run has seen so far

vars == <<image_features, sqlite_sequence, files, ocr_engine, pc,
          pending_images, stats, archive_moves, last_override,
          last_claim, calls, events, call, ret, image_text_search,
          _db_lock, conn, threads, task>>

----------------------------------------------------------------------------
(* Bounds of the model *)

\* ids the AUTOINCREMENT key may reach (number of inserts of a run)
MaxId == 2
\* largest max_retries argument of process_ocr_pending_images
MaxRetriesArg == 2
\* max_count argument of check_and_archive_images (files that trigger archiving)
MaxCountArg == 1
\* calls of process_ocr_pending_images in a run
MaxCalls == 2
\* events in a run besides photos and batch calls: manual overrides, calls of
\* add_image_to_index for an indexed path, archiving runs, file losses, failed
\* store writes and failed engine loads
MaxEvents == 1

Ids == 1..MaxId
Batches == {"scheduled", "command"}
DownloadPathList == <<"p1", "p2">>
DownloadPaths == {DownloadPathList[k] : k \in 1..Len(DownloadPathList)}
ArchivePath(p) == IF p = "p1" THEN "a1" ELSE "a2"
Paths == DownloadPaths \cup {ArchivePath(p) : p \in DownloadPaths}
Hashes == {"h1", "h2"}
\* the photo downloaded to a path: its content (named by its content hash) and
\* the link of the message it was forwarded from ("" when it has none)
NewFileContent(p) == IF p = "p1" THEN "h1" ELSE "h2"
MessageIdOf(p) == IF p = "p1" THEN "m1" ELSE ""
IsFile(f) == f # "missing"
IsImage(f) == f \in Hashes
MsgIds == {"", "m1"}
\* batch_size arguments: a larger one claims what MaxId claims
BatchSizeArgs == 1..MaxId
MaxRetriesArgs == 1..MaxRetriesArg

\* config.py sets no MAC_SHORTCUTS, so getattr(config, 'MAC_SHORTCUTS', None) is
\* None and _use_mac_shortcuts() is False on every platform
MAC_SHORTCUTS == FALSE
_use_mac_shortcuts == MAC_SHORTCUTS

Min(a, b) == IF a <= b THEN a ELSE b

----------------------------------------------------------------------------
(* Text Normalizer: _clean_text, on texts as sequences of characters *)

\* characters matched by \s and stripped by str.strip(): the space, the line
\* breaks, and the other Unicode whitespace (here U+3000, the ideographic space)
Whitespace == {"sp", "nl", "tab", "cr", "ids"}
\* characters matched by [\r\n\t]
LineBreaks == {"nl", "tab", "cr"}
\* characters kept by [^一-鿿\w\s]: CJK ideographs, word characters, whitespace
KeptChars == {"a", "b", "c", "zh", "s1", "s2", "t1", "t2", "us"} \cup Whitespace
Chars == KeptChars \cup {"bang", "dot"}

RECURSIVE ReplaceRuns(_, _)
\* re.sub(r'[S]+', ' ', t): every maximal run of characters of S becomes one space
ReplaceRuns(t, S) ==
    IF t = <<>> THEN <<>>
    ELSE IF Head(t) \in S
         THEN IF Len(t) > 1 /\ t[2] \in S
              THEN ReplaceRuns(Tail(t), S)
              ELSE <<"sp">> \o ReplaceRuns(Tail(t), S)
         ELSE <<Head(t)>> \o ReplaceRuns(Tail(t), S)

RECURSIVE LStrip(_)
LStrip(t) == IF t # <<>> /\ Head(t) \in Whitespace THEN LStrip(Tail(t)) ELSE t

RECURSIVE RStrip(_)
RStrip(t) ==
    IF t # <<>> /\ t[Len(t)] \in Whitespace THEN RStrip(SubSeq(t, 1, Len(t) - 1)) ELSE t

\* str.strip()
Strip(t) == LStrip(RStrip(t))

\* re.sub(r'[^一-鿿\w\s]', '', t)
RemoveNoise(t) == SelectSeq(t, LAMBDA ch : ch \in KeptChars)

\* a normalizer without step 4, the second whitespace pass
_clean_text_NoFinalPass(text) ==
    IF text = <<>> THEN <<>>
    ELSE RemoveNoise(ReplaceRuns(Strip(ReplaceRuns(text, LineBreaks)), Whitespace))

_clean_text(text) ==
    IF text = <<>> THEN <<>>
    ELSE LET s1 == ReplaceRuns(text, LineBreaks)
             s2 == ReplaceRuns(Strip(s1), Whitespace)
             s3 == RemoveNoise(s2)
         IN  ReplaceRuns(Strip(s3), Whitespace)

RECURSIVE Join(_)
\* ' '.join(texts)
Join(texts) ==
    IF texts = <<>> THEN <<>>
    ELSE IF Len(texts) = 1 THEN texts[1]
    ELSE texts[1] \o <<"sp">> \o Join(Tail(texts))

----------------------------------------------------------------------------
(* Inputs *)

\* ocr_text arguments of the manual overrides (/tag)
ManualTexts == { <<"nl", "b", "bang", "tab", "sp", "c", "sp">> }

\* confidence scores in tenths; fragments are kept when score > 0.6
ScoreThreshold == 6

\* outcomes of self.ocr_engine.ocr(path): it raises, or returns rec_texts with rec_scores
EngineResults ==
    { [raised |-> TRUE, fragments |-> <<>>],
      [raised |-> FALSE, fragments |-> <<>>],
      [raised |-> FALSE, fragments |-> << [text |-> <<"sp", "a", "dot">>, score |-> 9] >>],
      [raised |-> FALSE, fragments |-> << [text |-> <<"a">>, score |-> 9],
                                          [text |-> <<"b">>, score |-> 5] >>] }

ZeroStats == [processed |-> 0, succeeded |-> 0, failed |-> 0, skipped |-> 0]
NoOverride == [op |-> "none", id |-> 0, from |-> "none", count |-> 0]
NoClaim == [batch |-> "none", batch_size |-> 0, max_retries |-> 0]
\* the value None of an Optional[str]
\* no query in progress, and nothing returned
NoCall == [op |-> "none"]
NoRet == [returned |-> FALSE]
Return(value) == [returned |-> TRUE, value |-> value]

None == [none |-> TRUE, text |-> <<>>]
Some(text) == [none |-> FALSE, text |-> text]

----------------------------------------------------------------------------
(* Index Store: rows of image_features and the statements run on them *)

Statuses == {"pending", "completed", "failed", "skipped"}

\* the row add_image_to_index inserts
NewRow(file_path, file_hash, telegram_message_id) ==
    [file_path |-> file_path, file_hash |-> file_hash, ocr_text |-> <<>>,
     telegram_message_id |-> telegram_message_id,
     ocr_status |-> "pending", ocr_fail_count |-> 0]

\* UPDATE image_features SET <changes> WHERE id = ? (no row: nothing changes)
SqlUpdate(t, id, changes) ==
    IF id \in DOMAIN t
    THEN [t EXCEPT ![id] =
            [f \in DOMAIN t[id] |-> IF f \in DOMAIN changes THEN changes[f] ELSE t[id][f]]]
    ELSE t

\* INSERT OR REPLACE: the row holding the same file_path is deleted, the new
\* row gets the next AUTOINCREMENT id
InsertOrReplace(t, seq, row) ==
    LET kept == {i \in DOMAIN t : t[i].file_path # row.file_path}
    IN  [i \in kept \cup {seq + 1} |-> IF i = seq + 1 THEN row ELSE t[i]]

\* a WHERE clause that leaves out only the completed records
Claimable_NotCompleted(row, max_retries) == row.ocr_status # "completed"

\* a WHERE clause whose retry bound is off by one (<= for <)
Claimable_RetryInclusive(row, max_retries) ==
    \/ row.ocr_status = "pending"
    \/ row.ocr_status = "failed" /\ row.ocr_fail_count <= max_retries

\* WHERE (ocr_status = 'pending' OR (ocr_status = 'failed' AND ocr_fail_count < ?))
Claimable(row, max_retries) ==
    \/ row.ocr_status = "pending"
    \/ row.ocr_status = "failed" /\ row.ocr_fail_count < max_retries

\* LIMIT ?
Limit(n, batch_size) == Min(n, batch_size)

\* the SELECT of process_ocr_pending_images: every list fetchall() may return
\* (the statement has no ORDER BY)
SelectPending(t, batch_size, max_retries) ==
    LET C == {i \in DOMAIN t : Claimable(t[i], max_retries)}
        n == Limit(Cardinality(C), batch_size)
    IN  { [k \in 1..n |-> <<s[k], t[s[k]].file_path>>] :
            s \in {x \in [1..n -> C] : \A a, b \in 1..n : a # b => x[a] # x[b]} }

_update_ocr_result(t, img_id, text, status, fail_count) ==
    SqlUpdate(t, img_id, [ocr_text |-> text, ocr_status |-> status, ocr_fail_count |-> fail_count])

\* an UPDATE that counts the failure and leaves ocr_status as it is
_increment_ocr_fail_count_KeepsStatus(t, img_id) ==
    IF img_id \in DOMAIN t
    THEN SqlUpdate(t, img_id, [ocr_fail_count |-> t[img_id].ocr_fail_count + 1])
    ELSE t

_increment_ocr_fail_count(t, img_id) ==
    IF img_id \in DOMAIN t
    THEN SqlUpdate(t, img_id, [ocr_status |-> "failed", ocr_fail_count |-> t[img_id].ocr_fail_count + 1])
    ELSE t

_mark_ocr_skipped(t, img_id) ==
    SqlUpdate(t, img_id, [ocr_status |-> "skipped"])

\* an UPDATE that stores the operator's text as typed
ManualUpdate_RawText(t, img_id, text) ==
    SqlUpdate(t, img_id, [ocr_text |-> text, ocr_status |-> "completed", ocr_fail_count |-> 0])

\* the UPDATE of set_manual_ocr_result and set_manual_ocr_result_by_hash
ManualUpdate(t, img_id, text) ==
    SqlUpdate(t, img_id, [ocr_text |-> _clean_text(text), ocr_status |-> "completed", ocr_fail_count |-> 0])

\* an UPDATE that leaves ocr_fail_count as it is
ClearUpdate_KeepsCount(t, img_id) ==
    SqlUpdate(t, img_id, [ocr_text |-> <<>>, ocr_status |-> "pending"])

\* the UPDATE of clear_ocr_result
ClearUpdate(t, img_id) ==
    SqlUpdate(t, img_id, [ocr_text |-> <<>>, ocr_status |-> "pending", ocr_fail_count |-> 0])

\* rows fetchone() may return for WHERE telegram_message_id = ?
RowsByMessageId(t, telegram_message_id) ==
    {i \in DOMAIN t : t[i].telegram_message_id = telegram_message_id}

\* rows fetchone() may return for WHERE file_hash = ?
RowsByHash(t, file_hash) == {i \in DOMAIN t : t[i].file_hash = file_hash}

RECURSIVE RewritePaths(_, _)
\* executemany("UPDATE ... SET file_path = ? WHERE file_path = ?"): the table
\* after the statements, and whether one of them broke UNIQUE(file_path)
RewritePaths(t, path_mappings) ==
    IF path_mappings = <<>> THEN [error |-> FALSE, table |-> t]
    ELSE LET old == path_mappings[1][1]
             new == path_mappings[1][2]
             hit == {i \in DOMAIN t : t[i].file_path = old}
             clash == \E i \in hit : \E j \in DOMAIN t : j # i /\ t[j].file_path = new
         IN  IF clash THEN [error |-> TRUE, table |-> t]
             ELSE RewritePaths([i \in DOMAIN t |->
                                   IF i \in hit THEN [t[i] EXCEPT !.file_path = new] ELSE t[i]],
                               Tail(path_mappings))

\* a path update that writes each moved record anew, as add_image_to_index does
update_archived_file_paths_Reindex(t, path_mappings) ==
    IF RewritePaths(t, path_mappings).error THEN t
    ELSE [i \in DOMAIN t |->
            IF RewritePaths(t, path_mappings).table[i].file_path = t[i].file_path THEN t[i]
            ELSE [t[i] EXCEPT !.file_path = RewritePaths(t, path_mappings).table[i].file_path,
                              !.ocr_text = <<>>, !.ocr_status = "pending",
                              !.ocr_fail_count = 0]]

\* a path update that commits the statements run before the failing one
update_archived_file_paths_NoRollback(t, path_mappings) ==
    RewritePaths(t, path_mappings).table

\* update_archived_file_paths: commit, or roll back on an exception
update_archived_file_paths(t, path_mappings) ==
    IF RewritePaths(t, path_mappings).error THEN t ELSE RewritePaths(t, path_mappings).table

\* get_ocr_by_message_id: the values it may return
get_ocr_by_message_id(t, telegram_message_id) ==
    IF telegram_message_id = "" THEN {None}
    ELSE IF RowsByMessageId(t, telegram_message_id) = {} THEN {None}
    ELSE { IF t[i].ocr_text # <<>> THEN Some(t[i].ocr_text) ELSE None :
             i \in RowsByMessageId(t, telegram_message_id) }

\* a search whose exact file-hash match finds nothing
ExactMatch_Never(t, file_hash) == {}

\* search_similar_images, step 1: the rows the exact file-hash match may return
ExactMatch(t, file_hash) == RowsByHash(t, file_hash)

----------------------------------------------------------------------------
(* OCR Gateway *)

\* texts kept from an engine result: non-blank fragments with score > 0.6, stripped
RECURSIVE KeptFragments(_)
KeptFragments(fragments) ==
    IF fragments = <<>> THEN <<>>
    ELSE LET r == Head(fragments)
         IN  (IF Strip(r.text) # <<>> /\ r.score > ScoreThreshold THEN <<Strip(r.text)>> ELSE <<>>)
             \o KeptFragments(Tail(fragments))

\* the text _extract_text_from_image returns for an engine outcome: '' when the
\* engine raised or found nothing, else the cleaned join of the kept fragments
EngineText(result) ==
    IF result.raised THEN <<>>
    ELSE IF result.fragments = <<>> THEN <<>>
    ELSE _clean_text(Join(KeptFragments(result.fragments)))

----------------------------------------------------------------------------
(* The full-text index image_text_search and its triggers *)

\* the entry the triggers index for a row
IndexEntry(row) == [file_path |-> row.file_path, ocr_text |-> row.ocr_text]

\* the index that mirrors a table
IndexOf(t) == [i \in DOMAIN t |-> IndexEntry(t[i])]

\* the index after a statement that turned table t into t2.  image_features_ai
\* adds the entry of an inserted row and image_features_au replaces the entry
\* of an updated row.  The row that INSERT OR REPLACE deletes to resolve the
\* conflict on file_path fires no delete trigger (recursive_triggers is off,
\* the default, on this connection), so image_features_ad does not run for it
\* and its entry stays.
AfterTriggers(fts, t, t2) ==
    [i \in DOMAIN fts \cup DOMAIN t2 |->
        IF i \in DOMAIN t2 /\ (i \notin DOMAIN t \/ i \notin DOMAIN fts)
        THEN IndexEntry(t2[i])
        ELSE IF i \in DOMAIN t2 /\ t2[i] # t[i] THEN IndexEntry(t2[i])
        ELSE fts[i]]

\* the statements of one operation, committed or rolled back, with their triggers
Indexed == image_text_search' = AfterTriggers(image_text_search, image_features, image_features')

\* caller threads of single store operations
Threads == {"t1", "t2"}

\* the connection as sqlite3.connect returns it
OpenConn == [state |-> "open", in_transaction |-> FALSE, by |-> "none"]

\* scheduled_ocr_task is not running
NoTask == [pc |-> "idle", retryable |-> {}, attempted |-> {}, processed |-> 0]

\* no store operation is in progress and the lock is free; the daily job has
\* not started
Unlocked ==
    /\ _db_lock = "free"
    /\ conn = OpenConn
    /\ threads = [t \in Threads |-> "idle"]
    /\ task = NoTask

\* the variables that the operations modelled as one step leave alone: the
\* queries' call and result, and the lock, which such an operation takes and
\* releases within its step
aside == <<call, ret, _db_lock, conn, threads, task>>

----------------------------------------------------------------------------
(* Initial state: the searcher is constructed over the database file of an  *)
(* earlier run (CREATE TABLE IF NOT EXISTS keeps its rows) or over a fresh  *)
(* one; the engine is not loaded.                                           *)

\* what an earlier run of the bot left in the database file and on disk:
\* nothing, or the record of the photo at the first download path in one of
\* the states the OCR job leaves a record in
PersistedRecords ==
    { [ocr_status |-> "pending", ocr_fail_count |-> 0, ocr_text |-> <<>>, file |-> "h1"],
      [ocr_status |-> "completed", ocr_fail_count |-> 0, ocr_text |-> <<"a">>, file |-> "h1"],
      [ocr_status |-> "failed", ocr_fail_count |-> 1, ocr_text |-> <<>>, file |-> "h1"],
      [ocr_status |-> "skipped", ocr_fail_count |-> 0, ocr_text |-> <<>>, file |-> "missing"] }

Init ==
    /\ \/ /\ image_features = <<>>
          /\ sqlite_sequence = 0
          /\ files = [p \in Paths |-> "missing"]
       \/ \E s \in PersistedRecords :
             /\ image_features =
                  << [NewRow(DownloadPathList[1], NewFileContent(DownloadPathList[1]),
                             MessageIdOf(DownloadPathList[1]))
                        EXCEPT !.ocr_status = s.ocr_status,
                               !.ocr_fail_count = s.ocr_fail_count,
                               !.ocr_text = s.ocr_text] >>
             /\ sqlite_sequence = 1
             /\ files = [p \in Paths |-> IF p = DownloadPathList[1] THEN s.file ELSE "missing"]
    /\ ocr_engine = "None"
    /\ pc = [b \in Batches |-> "idle"]
    /\ pending_images = [b \in Batches |-> <<>>]
    /\ stats = [b \in Batches |-> ZeroStats]
    /\ archive_moves = <<>>
    /\ last_override = NoOverride
    /\ last_claim = NoClaim
    /\ calls = 0
    /\ events = 0
    /\ call = NoCall
    /\ ret = NoRet
    /\ image_text_search = IndexOf(image_features)
    /\ Unlocked

----------------------------------------------------------------------------
(* add_image_to_index *)

\* _extract_features succeeds on a decodable image and the INSERT OR REPLACE
\* commits.  (A failed extraction or a failed INSERT returns False and changes
\* nothing.)
add_image_to_index(t, seq, file_path, file, telegram_message_id) ==
    InsertOrReplace(t, seq, NewRow(file_path, file, telegram_message_id))

\* the paths the store or a batch thread refers to
PathsInUse ==
    {image_features[i].file_path : i \in DOMAIN image_features}
    \cup UNION {{pending_images[b][k][2] : k \in 1..Len(pending_images[b])} : b \in Batches}

\* handle_photo_with_retry, the photo of a message: search_similar_images finds
\* no record with its content hash, so the download is renamed to its permanent
\* path (named after the message, so not used before) and added to the index
handle_photo(p) ==
    /\ files[p] = "missing"
    /\ ExactMatch(image_features, NewFileContent(p)) = {}
    /\ sqlite_sequence < MaxId
    /\ files' = [files EXCEPT ![p] = NewFileContent(p)]
    /\ image_features' = add_image_to_index(image_features, sqlite_sequence, p,
                                            NewFileContent(p), MessageIdOf(p))
    /\ sqlite_sequence' = sqlite_sequence + 1
    /\ last_override' = NoOverride
    /\ last_claim' = NoClaim
    /\ UNCHANGED aside
    /\ UNCHANGED <<ocr_engine, pc, pending_images, stats, archive_moves, calls, events>>
    /\ Indexed

\* add_image_to_index called again for an indexed file_path
reindex(id) ==
    /\ id \in DOMAIN image_features
    /\ IsImage(files[image_features[id].file_path])
    /\ sqlite_sequence < MaxId
    /\ image_features' = add_image_to_index(image_features, sqlite_sequence,
                                            image_features[id].file_path,
                                            files[image_features[id].file_path],
                                            image_features[id].telegram_message_id)
    /\ sqlite_sequence' = sqlite_sequence + 1
    /\ last_override' = NoOverride
    /\ last_claim' = NoClaim
    /\ UNCHANGED aside
    /\ events < MaxEvents
    /\ events' = events + 1
    /\ UNCHANGED <<files, ocr_engine, pc, pending_images, stats, archive_moves, calls>>
    /\ Indexed

----------------------------------------------------------------------------
(* process_ocr_pending_images.  The lock is released between the claim and  *)
(* each per-record write, so a call is a sequence of actions.  A step that  *)
(* reads only the call's locals, the file system or the engine is joined    *)
(* with the store write that follows it: what another thread does between   *)
(* the two has the same effect just before or just after the joined step.   *)

\* the environment causes a fault in this step (if `faulty`), within its budget
Fault(faulty) ==
    /\ faulty => events < MaxEvents
    /\ events' = IF faulty THEN events + 1 ELSE events

Bump(st, field) == [st EXCEPT ![field] = @ + 1]

\* the (id, file_path) pair a batch thread is processing
CurId(b) == pending_images[b][1][1]
CurPath(b) == pending_images[b][1][2]

\* `if not pending_images: return stats`: nothing was claimed
process_claim_empty(b, batch_size, max_retries) ==
    /\ pc[b] = "idle"
    /\ <<>> \in SelectPending(image_features, batch_size, max_retries)
    /\ pc' = [pc EXCEPT ![b] = "return_empty"]
    /\ stats' = [stats EXCEPT ![b] = ZeroStats]
    /\ calls < MaxCalls
    /\ calls' = calls + 1
    /\ last_override' = NoOverride
    /\ last_claim' = [batch |-> b, batch_size |-> batch_size, max_retries |-> max_retries]
    /\ UNCHANGED aside
    /\ UNCHANGED <<image_features, sqlite_sequence, files, ocr_engine, pending_images,
                   archive_moves, events>>
    /\ Indexed

\* the SELECT under the lock, then _ensure_ocr_engine(), which loads the
\* engine when the handle is None
process_claim(b, batch_size, max_retries, sel) ==
    /\ pc[b] = "idle"
    /\ sel \in SelectPending(image_features, batch_size, max_retries)
    /\ sel # <<>>
    /\ _use_mac_shortcuts \/ ocr_engine \in {"None", "loaded"}
    /\ ocr_engine' = IF _use_mac_shortcuts THEN ocr_engine ELSE "loaded"
    /\ pending_images' = [pending_images EXCEPT ![b] = sel]
    /\ pc' = [pc EXCEPT ![b] = "exists"]
    /\ stats' = [stats EXCEPT ![b] = ZeroStats]
    /\ calls < MaxCalls
    /\ calls' = calls + 1
    /\ last_override' = NoOverride
    /\ last_claim' = [batch |-> b, batch_size |-> batch_size, max_retries |-> max_retries]
    /\ UNCHANGED aside
    /\ UNCHANGED <<image_features, sqlite_sequence, files, archive_moves, events>>
    /\ Indexed

\* the SELECT under the lock, then _ensure_ocr_engine() raises (the load fails,
\* or another thread's cleanup has deleted the attribute): the outer except
\* logs the error and returns the stats
process_claim_error(b, batch_size, max_retries, sel) ==
    /\ pc[b] = "idle"
    /\ sel \in SelectPending(image_features, batch_size, max_retries)
    /\ sel # <<>>
    /\ ~_use_mac_shortcuts
    /\ ocr_engine \in {"None", "deleted"}
    /\ Fault(ocr_engine = "None")
    /\ pending_images' = [pending_images EXCEPT ![b] = sel]
    /\ pc' = [pc EXCEPT ![b] = "return_error"]
    /\ stats' = [stats EXCEPT ![b] = ZeroStats]
    /\ calls < MaxCalls
    /\ calls' = calls + 1
    /\ last_override' = NoOverride
    /\ last_claim' = [batch |-> b, batch_size |-> batch_size, max_retries |-> max_retries]
    /\ UNCHANGED aside
    /\ UNCHANGED <<image_features, sqlite_sequence, files, ocr_engine, archive_moves>>
    /\ Indexed

\* a loop that a bad record aborts: the call returns after the current pair
Advance_Break(b) ==
    /\ pending_images' = [pending_images EXCEPT ![b] = Tail(@)]
    /\ pc' = [pc EXCEPT ![b] = "return_stats"]

\* continue with the next claimed pair, or leave the loop
Advance(b) ==
    /\ pending_images' = [pending_images EXCEPT ![b] = Tail(@)]
    /\ pc' = [pc EXCEPT ![b] = IF Len(pending_images[b]) = 1 THEN "return_stats" ELSE "exists"]

\* a writer's UPDATE commits (ok), or raises and is rolled back, which the
\* writer only logs
Written(ok, t) ==
    /\ image_features' = IF ok THEN t ELSE image_features
    /\ Fault(~ok)

\* os.path.exists(file_path) is False on the claimed path:
\* _mark_ocr_skipped(img_id); stats['skipped'] += 1; continue
process_missing(b, ok) ==
    /\ pc[b] = "exists"
    /\ ~IsFile(files[CurPath(b)])
    /\ Written(ok, _mark_ocr_skipped(image_features, CurId(b)))
    /\ stats' = [stats EXCEPT ![b] = Bump(@, "skipped")]
    /\ Advance(b)
    /\ last_override' = NoOverride
    /\ last_claim' = NoClaim
    /\ UNCHANGED aside
    /\ UNCHANGED <<sqlite_sequence, files, ocr_engine, archive_moves, calls>>
    /\ Indexed

\* os.path.exists(file_path) is True: stats['processed'] += 1
process_exists(b) ==
    /\ pc[b] = "exists"
    /\ IsFile(files[CurPath(b)])
    /\ pc' = [pc EXCEPT ![b] = "try"]
    /\ stats' = [stats EXCEPT ![b] = Bump(@, "processed")]
    /\ last_override' = NoOverride
    /\ last_claim' = NoClaim
    /\ UNCHANGED aside
    /\ UNCHANGED <<image_features, sqlite_sequence, files, ocr_engine, pending_images,
                   archive_moves, calls, events>>
    /\ Indexed

\* os.path.getsize(file_path) raises, the file being gone since the exists
\* check: _increment_ocr_fail_count(img_id); stats['failed'] += 1
process_getsize_error(b, ok) ==
    /\ pc[b] = "try"
    /\ ~IsFile(files[CurPath(b)])
    /\ Written(ok, _increment_ocr_fail_count(image_features, CurId(b)))
    /\ stats' = [stats EXCEPT ![b] = Bump(@, "failed")]
    /\ Advance(b)
    /\ last_override' = NoOverride
    /\ last_claim' = NoClaim
    /\ UNCHANGED aside
    /\ UNCHANGED <<sqlite_sequence, files, ocr_engine, archive_moves, calls>>
    /\ Indexed

\* file_size == 0: _mark_ocr_skipped(img_id); stats['skipped'] += 1; continue
process_empty(b, ok) ==
    /\ pc[b] = "try"
    /\ files[CurPath(b)] = "empty"
    /\ Written(ok, _mark_ocr_skipped(image_features, CurId(b)))
    /\ stats' = [stats EXCEPT ![b] = Bump(@, "skipped")]
    /\ Advance(b)
    /\ last_override' = NoOverride
    /\ last_claim' = NoClaim
    /\ UNCHANGED aside
    /\ UNCHANGED <<sqlite_sequence, files, ocr_engine, archive_moves, calls>>
    /\ Indexed

\* _extract_text_from_image raises: its _ensure_ocr_engine() call, which stands
\* before the try block, fails to load the engine or finds the attribute
\* deleted.  except Exception: _increment_ocr_fail_count(img_id); stats['failed'] += 1
process_recognize_raises(b, ok) ==
    /\ pc[b] = "try"
    /\ IsImage(files[CurPath(b)])
    /\ ~_use_mac_shortcuts
    /\ ocr_engine \in {"None", "deleted"}
    /\ image_features' = IF ok THEN _increment_ocr_fail_count(image_features, CurId(b))
                         ELSE image_features
    /\ ok \/ ocr_engine = "deleted"
    /\ Fault(~ok \/ ocr_engine = "None")
    /\ stats' = [stats EXCEPT ![b] = Bump(@, "failed")]
    /\ Advance(b)
    /\ last_override' = NoOverride
    /\ last_claim' = NoClaim
    /\ UNCHANGED aside
    /\ UNCHANGED <<sqlite_sequence, files, ocr_engine, archive_moves, calls>>
    /\ Indexed

\* _extract_text_from_image returns: the engine is there (loaded now if the
\* handle was None) and ocr() runs inside the try block, whose except turns an
\* exception of the engine into ''.
\* _update_ocr_result(img_id, ocr_text, 'completed', 0); stats['succeeded'] += 1
process_recognize(b, result, ok) ==
    /\ pc[b] = "try"
    /\ IsImage(files[CurPath(b)])
    /\ ~_use_mac_shortcuts
    /\ ocr_engine \in {"None", "loaded"}
    /\ ocr_engine' = "loaded"
    /\ Written(ok, _update_ocr_result(image_features, CurId(b), EngineText(result), "completed", 0))
    /\ stats' = [stats EXCEPT ![b] = Bump(@, "succeeded")]
    /\ Advance(b)
    /\ last_override' = NoOverride
    /\ last_claim' = NoClaim
    /\ UNCHANGED aside
    /\ UNCHANGED <<sqlite_sequence, files, archive_moves, calls>>
    /\ Indexed

ReturnPcs == {"return_empty", "return_error", "return_stats"}

\* the return statement has fixed the returned stats (stats[b] in this state);
\* finally: cleanup_ocr_resources() up to `del self.ocr_engine`, which has
\* nothing to do with the Mac shortcut or without a loaded handle.  The locals
\* of the call are dead from here on.
process_finally(b) ==
    /\ pc[b] \in ReturnPcs
    /\ IF ~_use_mac_shortcuts /\ ocr_engine = "loaded"
       THEN /\ ocr_engine' = "deleted"
            /\ pc' = [pc EXCEPT ![b] = "cleanup"]
       ELSE /\ pc' = [pc EXCEPT ![b] = "idle"]
            /\ UNCHANGED ocr_engine
    /\ pending_images' = [pending_images EXCEPT ![b] = <<>>]
    /\ stats' = [stats EXCEPT ![b] = ZeroStats]
    /\ last_override' = NoOverride
    /\ last_claim' = NoClaim
    /\ UNCHANGED aside
    /\ UNCHANGED <<image_features, sqlite_sequence, files, archive_moves, calls, events>>
    /\ Indexed

\* cleanup_ocr_resources(): `self.ocr_engine = None`, then the call returns
process_cleanup(b) ==
    /\ pc[b] = "cleanup"
    /\ ocr_engine' = "None"
    /\ pc' = [pc EXCEPT ![b] = "idle"]
    /\ last_override' = NoOverride
    /\ last_claim' = NoClaim
    /\ UNCHANGED aside
    /\ UNCHANGED <<image_features, sqlite_sequence, files, pending_images, stats,
                   archive_moves, calls, events>>
    /\ Indexed

----------------------------------------------------------------------------
(* Manual overrides: each finds its row with fetchone(), then updates it by id *)

Override(op, id) ==
    [op |-> op, id |-> id, from |-> image_features[id].ocr_status,
     count |-> image_features[id].ocr_fail_count]

set_manual_ocr_result(telegram_message_id, text, id) ==
    /\ telegram_message_id # ""
    /\ id \in RowsByMessageId(image_features, telegram_message_id)
    /\ image_features' = ManualUpdate(image_features, id, text)
    /\ last_override' = Override("set_manual_ocr_result", id)
    /\ last_claim' = NoClaim
    /\ UNCHANGED aside
    /\ UNCHANGED <<sqlite_sequence, files, ocr_engine, pc, pending_images, stats,
                   archive_moves>>
    /\ events < MaxEvents
    /\ events' = events + 1
    /\ UNCHANGED calls
    /\ Indexed

set_manual_ocr_result_by_hash(file_hash, text, id) ==
    /\ id \in RowsByHash(image_features, file_hash)
    /\ image_features' = ManualUpdate(image_features, id, text)
    /\ last_override' = Override("set_manual_ocr_result_by_hash", id)
    /\ last_claim' = NoClaim
    /\ UNCHANGED aside
    /\ UNCHANGED <<sqlite_sequence, files, ocr_engine, pc, pending_images, stats,
                   archive_moves>>
    /\ events < MaxEvents
    /\ events' = events + 1
    /\ UNCHANGED calls
    /\ Indexed

clear_ocr_result(telegram_message_id, id) ==
    /\ telegram_message_id # ""
    /\ id \in RowsByMessageId(image_features, telegram_message_id)
    /\ image_features' = ClearUpdate(image_features, id)
    /\ last_override' = Override("clear_ocr_result", id)
    /\ last_claim' = NoClaim
    /\ UNCHANGED aside
    /\ UNCHANGED <<sqlite_sequence, files, ocr_engine, pc, pending_images, stats,
                   archive_moves>>
    /\ events < MaxEvents
    /\ events' = events + 1
    /\ UNCHANGED calls
    /\ Indexed

----------------------------------------------------------------------------
(* The file system and check_and_archive_images *)

\* a file is removed, or truncated to zero length, behind the program's back
DamageFile(p, to) ==
    /\ IsImage(files[p])
    /\ p \in PathsInUse
    /\ files' = [files EXCEPT ![p] = to]
    /\ last_override' = NoOverride
    /\ last_claim' = NoClaim
    /\ UNCHANGED aside
    /\ UNCHANGED <<image_features, sqlite_sequence, ocr_engine, pc, pending_images,
                   stats, archive_moves>>
    /\ events < MaxEvents
    /\ events' = events + 1
    /\ UNCHANGED calls
    /\ Indexed

\* get_image_files_in_folder: the top-level files of the download folder
ImageFilesInFolder == {p \in DownloadPaths : IsFile(files[p])}

\* the moved files paired with their new paths, in listing order
OldNewPaths ==
    LET moved == SelectSeq(DownloadPathList, LAMBDA p : p \in ImageFilesInFolder)
    IN  [k \in 1..Len(moved) |-> <<moved[k], ArchivePath(moved[k])>>]

\* check_and_archive_images up to the store update: at max_count files, every
\* file of the folder is moved into the archive folder (to a name free there)
archive_move_files(max_count) ==
    /\ archive_moves = <<>>
    /\ Cardinality(ImageFilesInFolder) >= max_count
    /\ \A p \in ImageFilesInFolder : ~IsFile(files[ArchivePath(p)])
    /\ files' = [p \in Paths |->
                    IF p \in ImageFilesInFolder THEN "missing"
                    ELSE IF \E q \in ImageFilesInFolder : ArchivePath(q) = p
                         THEN files[CHOOSE q \in ImageFilesInFolder : ArchivePath(q) = p]
                         ELSE files[p]]
    /\ archive_moves' = OldNewPaths
    /\ last_override' = NoOverride
    /\ last_claim' = NoClaim
    /\ UNCHANGED aside
    /\ UNCHANGED <<image_features, sqlite_sequence, ocr_engine, pc, pending_images,
                   stats>>
    /\ events < MaxEvents
    /\ events' = events + 1
    /\ UNCHANGED calls
    /\ Indexed

\* check_and_archive_images: searcher_instance.update_archived_file_paths(old_new_paths_for_db)
archive_update_paths ==
    /\ archive_moves # <<>>
    /\ image_features' = update_archived_file_paths(image_features, archive_moves)
    /\ archive_moves' = <<>>
    /\ last_override' = NoOverride
    /\ last_claim' = NoClaim
    /\ UNCHANGED aside
    /\ UNCHANGED <<sqlite_sequence, files, ocr_engine, pc, pending_images, stats>>
    /\ UNCHANGED <<calls, events>>
    /\ Indexed

----------------------------------------------------------------------------

Next ==
    \/ \E p \in DownloadPaths : handle_photo(p)
    \/ \E i \in Ids : reindex(i)
    \/ \E b \in Batches, n \in BatchSizeArgs, r \in MaxRetriesArgs : process_claim_empty(b, n, r)
    \/ \E b \in Batches, n \in BatchSizeArgs, r \in MaxRetriesArgs :
          \E sel \in SelectPending(image_features, n, r) : process_claim(b, n, r, sel)
    \/ \E b \in Batches, n \in BatchSizeArgs, r \in MaxRetriesArgs :
          \E sel \in SelectPending(image_features, n, r) : process_claim_error(b, n, r, sel)
    \/ \E b \in Batches, ok \in BOOLEAN : process_missing(b, ok)
    \/ \E b \in Batches : process_exists(b)
    \/ \E b \in Batches, ok \in BOOLEAN : process_getsize_error(b, ok)
    \/ \E b \in Batches, ok \in BOOLEAN : process_empty(b, ok)
    \/ \E b \in Batches, ok \in BOOLEAN : process_recognize_raises(b, ok)
    \/ \E b \in Batches, result \in EngineResults, ok \in BOOLEAN : process_recognize(b, result, ok)
    \/ \E b \in Batches : process_finally(b)
    \/ \E b \in Batches : process_cleanup(b)
    \/ \E m \in MsgIds, t \in ManualTexts, i \in Ids : set_manual_ocr_result(m, t, i)
    \/ \E h \in Hashes, t \in ManualTexts, i \in Ids : set_manual_ocr_result_by_hash(h, t, i)
    \/ \E m \in MsgIds, i \in Ids : clear_ocr_result(m, i)
    \/ \E p \in Paths, to \in {"missing", "empty"} : DamageFile(p, to)
    \/ \E n \in 1..MaxCountArg : archive_move_files(n)
    \/ archive_update_paths

Spec == Init /\ [][Next]_vars

----------------------------------------------------------------------------
(* Properties *)

\* the batch call that has just claimed, and what it claimed
JustClaimed == last_claim # NoClaim
ClaimedBy(b) == pending_images[b]

\* C1: a call of process_ocr_pending_images(batch_size, max_retries) claims at
\* most batch_size records, each of them one that at claim time is 'pending',
\* or 'failed' with ocr_fail_count < max_retries; it never claims a
\* 'completed' or 'skipped' record.
C1_ClaimsOnlyPendingOrRetryable ==
    [][JustClaimed' =>
         LET claimed == pending_images'[last_claim'.batch]
         IN  /\ Len(claimed) <= last_claim'.batch_size
             /\ \A k \in 1..Len(claimed) :
                   /\ claimed[k][1] \in DOMAIN image_features
                   /\ image_features[claimed[k][1]].ocr_status \notin {"completed", "skipped"}
                   /\ \/ image_features[claimed[k][1]].ocr_status = "pending"
                      \/ /\ image_features[claimed[k][1]].ocr_status = "failed"
                         /\ image_features[claimed[k][1]].ocr_fail_count < last_claim'.max_retries
             /\ \A j, k \in 1..Len(claimed) : j # k => claimed[j][1] # claimed[k][1]
    ]_vars

\* C1 happens: a call has just claimed a 'failed' record below its retry bound
\* while more records were waiting than its batch_size
C1_ClaimedFailedUnderLimit ==
    /\ JustClaimed
    /\ \E k \in 1..Len(ClaimedBy(last_claim.batch)) :
          image_features[ClaimedBy(last_claim.batch)[k][1]].ocr_status = "failed"
    /\ Cardinality({i \in DOMAIN image_features :
                       image_features[i].ocr_status \in {"pending", "failed"}})
          > last_claim.batch_size

\* a record that has used up the retries a call with max_retries allows
Exhausted(t, i, max_retries) ==
    /\ i \in DOMAIN t
    /\ t[i].ocr_status = "failed"
    /\ t[i].ocr_fail_count >= max_retries

\* no call with max_retries claims a record exhausted for max_retries
ExhaustedNotClaimed ==
    JustClaimed' =>
        \A k \in 1..Len(pending_images'[last_claim'.batch]) :
            ~Exhausted(image_features, pending_images'[last_claim'.batch][k][1],
                       last_claim'.max_retries)

\* a record exhausted for max_retries becomes 'pending', or 'failed' below
\* max_retries, only by clear_ocr_result on that record
ExhaustedUntilCleared ==
    \A i \in Ids, r \in MaxRetriesArgs :
        (/\ Exhausted(image_features, i, r)
         /\ i \in DOMAIN image_features'
         /\ \/ image_features'[i].ocr_status = "pending"
            \/ image_features'[i].ocr_status = "failed" /\ image_features'[i].ocr_fail_count < r)
        => last_override' = [op |-> "clear_ocr_result", id |-> i, from |-> "failed",
                             count |-> image_features[i].ocr_fail_count]

\* the exact-hash step of search_similar_images finds an exhausted record
ExhaustedFoundByHash ==
    \A i \in Ids, r \in MaxRetriesArgs :
        Exhausted(image_features, i, r)
        => i \in ExactMatch(image_features, image_features[i].file_hash)

\* C2 (as the spec states it): once a record is 'failed' with ocr_fail_count =
\* max_retries, no call with that max_retries claims it until a manual override
\* resets it, and get_ocr_by_message_id and the search by content hash still
\* return the record.
C2_ExhaustedExcludedYetReturned ==
    /\ [][ExhaustedNotClaimed /\ ExhaustedUntilCleared]_vars
    /\ [](ExhaustedFoundByHash
          /\ \A i \in Ids, r \in MaxRetriesArgs :
                (Exhausted(image_features, i, r) /\ image_features[i].telegram_message_id # "")
                => None \notin get_ocr_by_message_id(image_features,
                                                     image_features[i].telegram_message_id))

\* C2 (amended): the exhausted record is excluded from claiming until
\* clear_ocr_result resets it and is found by the search by content hash;
\* get_ocr_by_message_id returns its ocr_text when that is not empty and None
\* when it is empty, as for a message id that has no record.
C2_ExhaustedExcludedFoundByHash ==
    /\ [][ExhaustedNotClaimed /\ ExhaustedUntilCleared]_vars
    /\ [](ExhaustedFoundByHash
          /\ \A i \in Ids, r \in MaxRetriesArgs :
                (Exhausted(image_features, i, r) /\ image_features[i].telegram_message_id # "")
                => get_ocr_by_message_id(image_features, image_features[i].telegram_message_id)
                     = {IF image_features[i].ocr_text = <<>> THEN None
                        ELSE Some(image_features[i].ocr_text)})

\* C2 happens: a call has just claimed with a max_retries for which a record
\* that has a message id is exhausted
C2_CallPassedOverExhausted ==
    /\ JustClaimed
    /\ \E i \in DOMAIN image_features :
          /\ Exhausted(image_features, i, last_claim.max_retries)
          /\ image_features[i].telegram_message_id # ""
          /\ \A k \in 1..Len(ClaimedBy(last_claim.batch)) :
                ClaimedBy(last_claim.batch)[k][1] # i

\* batch thread b finishes its current record in this step: one of the
\* per-record writers runs and the loop moves on
Finishes(b) ==
    /\ pc[b] \in {"exists", "try"}
    /\ pending_images'[b] # pending_images[b]

\* C3: no write made by process_ocr_pending_images changes the ocr_status or
\* ocr_text of a record that is 'completed' or 'skipped' at the moment of the
\* write, whatever ran between the batch's claim and that write.
C3_BatchKeepsCompletedAndSkipped ==
    [][\A b \in Batches :
         (/\ Finishes(b)
          /\ CurId(b) \in DOMAIN image_features
          /\ image_features[CurId(b)].ocr_status \in {"completed", "skipped"})
         => /\ CurId(b) \in DOMAIN image_features'
            /\ image_features'[CurId(b)].ocr_status = image_features[CurId(b)].ocr_status
            /\ image_features'[CurId(b)].ocr_text = image_features[CurId(b)].ocr_text
    ]_vars

\* C4: when recognition of a claimed record raises (os.path.getsize,
\* _extract_text_from_image or the engine's ocr() raises) and the store accepts
\* the batch's write, the record becomes 'failed', its ocr_fail_count grows by
\* exactly 1, and the call counts it in stats.failed, not in stats.succeeded.
C4_RaisedRecognitionFailsRecord ==
    [][\A b \in Batches :
         (\/ process_getsize_error(b, TRUE)
          \/ process_recognize_raises(b, TRUE)
          \/ process_recognize(b, [raised |-> TRUE, fragments |-> <<>>], TRUE))
         => /\ stats'[b].failed = stats[b].failed + 1
            /\ stats'[b].succeeded = stats[b].succeeded
            /\ CurId(b) \in DOMAIN image_features
                 => /\ image_features'[CurId(b)].ocr_status = "failed"
                    /\ image_features'[CurId(b)].ocr_fail_count
                         = image_features[CurId(b)].ocr_fail_count + 1
    ]_vars

\* C5: _extract_text_from_image never raises to its caller: whenever a batch
\* calls it (the claimed file exists and is not empty), the call returns a
\* text and the batch goes on to _update_ocr_result and stats.succeeded.
C5_ExtractTextNeverRaises ==
    [][\A b \in Batches :
         (Finishes(b) /\ pc[b] = "try" /\ IsImage(files[CurPath(b)]))
         => /\ stats'[b].succeeded = stats[b].succeeded + 1
            /\ stats'[b].failed = stats[b].failed
    ]_vars

\* C6: process_ocr_pending_images marks a record 'skipped' only if, at the
\* moment of the write, the file at the record's current file_path is missing
\* or zero-length, also when archiving ran since the batch's claim.
C6_SkippedOnlyWhenFileUnusable ==
    [][\A b \in Batches :
         (/\ Finishes(b)
          /\ stats'[b].skipped = stats[b].skipped + 1
          /\ CurId(b) \in DOMAIN image_features
          /\ image_features'[CurId(b)].ocr_status = "skipped"
          /\ image_features[CurId(b)].ocr_status # "skipped")
         => files[image_features[CurId(b)].file_path] \in {"missing", "empty"}
    ]_vars

C8_FailCountSteps ==
    [][\A i \in DOMAIN image_features' :
         /\ image_features'[i].ocr_fail_count \in Nat
         /\ i \notin DOMAIN image_features
               => image_features'[i].ocr_fail_count = 0
         /\ i \in DOMAIN image_features
               => /\ image_features'[i].ocr_fail_count > image_features[i].ocr_fail_count
                       => /\ image_features'[i].ocr_fail_count
                                = image_features[i].ocr_fail_count + 1
                          /\ image_features'[i].ocr_status = "failed"
         /\ image_features'[i].ocr_status \in {"completed", "pending"}
               => image_features'[i].ocr_fail_count = 0
    ]_vars

\* C8 happens: a manual completion has just reset a count that failures had raised
C8_ManualCompletionResetCount ==
    /\ last_override.op \in {"set_manual_ocr_result", "set_manual_ocr_result_by_hash"}
    /\ last_override.count > 0
    /\ image_features[last_override.id].ocr_fail_count = 0

\* C9 (as the spec states it): every record whose ocr_status is not 'failed'
\* has ocr_fail_count = 0.
C9_NotFailedHasZeroCount ==
    \A i \in DOMAIN image_features :
        image_features[i].ocr_status # "failed" => image_features[i].ocr_fail_count = 0

\* C9 (amended): every 'pending' and every 'completed' record has
\* ocr_fail_count = 0; a 'skipped' record keeps the count it had when it was
\* marked, which is not 0 if it had failed before.
C9_PendingCompletedHaveZeroCount ==
    /\ [](\A i \in DOMAIN image_features :
            image_features[i].ocr_status \in {"pending", "completed"}
            => image_features[i].ocr_fail_count = 0)
    /\ [][\A i \in DOMAIN image_features :
            (/\ i \in DOMAIN image_features'
             /\ image_features'[i].ocr_status = "skipped"
             /\ image_features[i].ocr_status # "skipped")
            => image_features'[i].ocr_fail_count = image_features[i].ocr_fail_count]_vars

\* C9 happens: a record that had failed is 'skipped' and still carries its count
C9_SkippedKeepsCount ==
    \E i \in DOMAIN image_features :
        image_features[i].ocr_status = "skipped" /\ image_features[i].ocr_fail_count > 0

\* C10: a call that finds no claimable record returns the zero stats and, up
\* to its return, changes no record and leaves the engine handle as it is,
\* neither loading nor releasing an engine.
C10_EmptyCallHasNoEffect ==
    [][\A b \in Batches :
         /\ (pc[b] = "idle" /\ pc'[b] = "return_empty")
               => /\ stats'[b] = ZeroStats
                  /\ image_features' = image_features
                  /\ ocr_engine' = ocr_engine
         /\ (pc[b] = "return_empty" /\ pc'[b] # "return_empty")
               => /\ stats[b] = ZeroStats
                  /\ image_features' = image_features
                  /\ ocr_engine' = ocr_engine
         /\ ((pc[b] = "return_empty" \/ pc[b] = "cleanup") /\ pc'[b] = "cleanup")
               => ocr_engine' = ocr_engine
    ]_vars

----------------------------------------------------------------------------
\* the records a call has attempted so far, as its stats count them
Attempted(st) == st.skipped + st.failed + st.succeeded

InLoop(b) == pc[b] \in {"exists", "try"}

(* C11: a failure on one claimed record (missing or zero-length file, a      *)
(* recognition error, a failing store write) does not keep the remaining     *)
(* claimed records from being processed: once the engine is acquired, every  *)
(* step of the loop keeps attempted + still-to-do constant, an attempt takes *)
(* exactly the head of the claimed list and writes to no other record, and   *)
(* the loop is left only for `return stats` with nothing left to do.         *)
C11_EveryClaimedRecordAttempted ==
    [][\A b \in Batches :
        /\ pc[b] = "idle" /\ pc'[b] = "exists" =>
              Attempted(stats'[b]) = 0 /\ pending_images'[b] # <<>>
        /\ InLoop(b) =>
              /\ Attempted(stats'[b]) + Len(pending_images'[b])
                   = Attempted(stats[b]) + Len(pending_images[b])
              /\ pending_images'[b] \in {pending_images[b], Tail(pending_images[b])}
              /\ pending_images'[b] # pending_images[b] =>
                    /\ DOMAIN image_features' = DOMAIN image_features
                    /\ \A i \in DOMAIN image_features :
                          i # CurId(b) => image_features'[i] = image_features[i]
              /\ pc'[b] \in {"exists", "try", "return_stats"}
              /\ pc'[b] = "return_stats" => pending_images'[b] = <<>>
              /\ pc'[b] \in {"exists", "try"} => pending_images'[b] # <<>>
      ]_vars

\* a call returns its stats after one of two claimed records failed and the
\* other was attempted all the same
C11_FailedRecordDidNotAbort ==
    \E b \in Batches :
        /\ pc[b] = "return_stats"
        /\ stats[b].failed = 1
        /\ Attempted(stats[b]) = 2

\* what the caller of process_ocr_pending_images receives: every return
\* statement returns the stats dict, and no exception leaves the function
Returned(b) == stats[b]

(* C12: when the OCR engine cannot be acquired for a batch that has claimed  *)
(* at least one record, the call reports the failure to its caller in a way  *)
(* distinguishable from an empty batch (which returns the zero stats) and    *)
(* from a successful one, and it leaves every claimed record's status and    *)
(* fail count unchanged.                                                     *)
C12_AcquisitionFailureReported ==
    [][\A b \in Batches :
        pc[b] = "idle" /\ pc'[b] = "return_error" =>
          /\ pending_images'[b] # <<>>
          /\ Returned(b)' # ZeroStats
          /\ image_features' = image_features
      ]_vars

----------------------------------------------------------------------------
(* Queries.  A query reads the store inside the lock and writes nothing; it *)
(* is studied on its own: `call` holds the operation and its arguments,     *)
(* drawn by the initial state, and one step computes what it returns.       *)

\* the variables a query leaves alone
store == <<image_features, sqlite_sequence, files, ocr_engine, pc, pending_images,
           stats, archive_moves, last_override, last_claim, calls, events,
           image_text_search, _db_lock, conn, threads, task>>

\* no batch, override or archiving run is in progress
Quiet ==
    /\ files = [p \in Paths |-> "missing"]
    /\ ocr_engine = "None"
    /\ pc = [b \in Batches |-> "idle"]
    /\ pending_images = [b \in Batches |-> <<>>]
    /\ stats = [b \in Batches |-> ZeroStats]
    /\ archive_moves = <<>>
    /\ last_override = NoOverride
    /\ last_claim = NoClaim
    /\ calls = 0
    /\ events = 0
    /\ image_text_search = IndexOf(image_features)
    /\ Unlocked

\* sequences over S of length at most n
SeqsUpTo(S, n) == UNION {[1..k -> S] : k \in 0..n}

----------------------------------------------------------------------------
(* _hamming_distance.  A fingerprint is the hex string str(imagehash.phash) *)
(* gives: a sequence of hex characters, each named by its value 0..15.      *)

\* length of the fingerprints compared in the model, besides the full-length ones
MaxHashLen == 2

\* hex characters the model draws fingerprints from
SampleHexDigits == {0, 1, 7, 15}

\* str(imagehash.phash(img)): 16 hex characters
PHashLen == 16

\* what _hamming_distance returns for hashes of different lengths
MismatchDistance == 64

Fingerprints ==
    SeqsUpTo(SampleHexDigits, MaxHashLen)
        \cup {[i \in 1..PHashLen |-> 0], [i \in 1..PHashLen |-> 15],
              [i \in 1..PHashLen |-> IF i = 1 THEN 1 ELSE 0]}

\* sum(c1 != c2 for c1, c2 in zip(hash1, hash2)) without the length check
_hamming_distance_Prefix(hash1, hash2) ==
    Cardinality({i \in 1..Min(Len(hash1), Len(hash2)) : hash1[i] # hash2[i]})

_hamming_distance(hash1, hash2) ==
    IF Len(hash1) # Len(hash2) THEN MismatchDistance
    ELSE Cardinality({i \in 1..Len(hash1) : hash1[i] # hash2[i]})

InitHamming ==
    /\ image_features = <<>>
    /\ sqlite_sequence = 0
    /\ Quiet
    /\ call \in {[op |-> "_hamming_distance", hash1 |-> a, hash2 |-> b] :
                    a \in Fingerprints, b \in Fingerprints}
    /\ ret = NoRet

hamming_distance_call ==
    /\ call.op = "_hamming_distance"
    /\ ret = NoRet
    /\ ret' = Return(_hamming_distance(call.hash1, call.hash2))
    /\ UNCHANGED <<call, store>>

SpecHamming == InitHamming /\ [][hamming_distance_call]_vars

(* C16: _hamming_distance(a, b) = _hamming_distance(b, a) for all            *)
(* fingerprints; it is 0 if and only if a = b; it never raises (it returns a *)
(* natural number); and for fingerprints of unequal length it returns a      *)
(* value at least as large as every distance of equal-length fingerprints.   *)
C16_HammingDistanceLaws ==
    (call.op = "_hamming_distance" /\ ret.returned) =>
        /\ ret.value \in Nat
        /\ ret.value = _hamming_distance(call.hash2, call.hash1)
        /\ (ret.value = 0) <=> (call.hash1 = call.hash2)
        /\ Len(call.hash1) # Len(call.hash2) =>
              \A a \in Fingerprints, b \in Fingerprints :
                  Len(a) = Len(b) => _hamming_distance(a, b) <= ret.value

\* a fingerprint compared with a proper prefix of itself
C16_ComparedWithPrefix ==
    /\ call.op = "_hamming_distance" /\ ret.returned
    /\ Len(call.hash1) < Len(call.hash2)
    /\ call.hash1 = SubSeq(call.hash2, 1, Len(call.hash1))
    /\ ret.value = MismatchDistance

----------------------------------------------------------------------------
(* search_similar_images *)

\* rows of the table searched
MaxRows == 3

\* largest max_results argument
MaxResultsArg == 3

\* the divisor of `similarity = 1.0 - (distance / 64.0)`.  A similarity is
\* held in 64ths (distance is an integer, so the float is exact): 1.0 is 64
HashBits == 64

\* a NULL phash column (no hex character has the value -1)
NULL == <<-1>>

\* the row INSERT OR REPLACE writes, with its phash and updated_time columns
InsertedRow(file_path, file_hash, phash, updated_time) ==
    [file_path |-> file_path, file_hash |-> file_hash, phash |-> phash,
     ocr_text |-> <<>>, telegram_message_id |-> MessageIdOf(file_path),
     updated_time |-> updated_time, ocr_status |-> "pending", ocr_fail_count |-> 0]

\* file_path is UNIQUE: the i-th row has the i-th path
RowPaths == <<"p1", "p2", "a1", "a2">>

StoredPHashes == {NULL, <<>>, <<0>>, <<0, 0>>, <<0, 1>>}
QueryPHashes == {<<0, 0>>, <<1, 1>>}
QueryHashes == Hashes \cup {"h3"}
ThresholdArgs == {0, 1, 5, 64}

\* the tables searched: every choice of content hash and phash for each row
FingerprintTables ==
    UNION {[1..n -> [file_hash : Hashes, phash : StoredPHashes]] : n \in 0..MaxRows}

\* _extract_features(query_image_path, ocr_needed=False): the features of a
\* readable image, or None
QueryFeatures ==
    [readable : {TRUE}, file_hash : QueryHashes, phash : QueryPHashes]
        \cup {[readable |-> FALSE, file_hash |-> "h3", phash |-> <<>>]}

\* cursor.fetchone(): a row of the set, or None (0) if there is none
NoRow == 0
FetchOne(S) == IF S = {} THEN {NoRow} ELSE S

\* the orders in which a statement without ORDER BY may return the rows S
Orders(S) == {o \in [1..Cardinality(S) -> S] : \A i \in S : \E k \in DOMAIN o : o[k] = i}

\* SELECT ... FROM image_features WHERE phash IS NOT NULL; fetchall()
Scans(t) == Orders({i \in DOMAIN t : t[i].phash # NULL})

\* one dictionary of the result list
ResultOf(row, similarity) ==
    [path |-> row.file_path, telegram_message_id |-> row.telegram_message_id,
     file_hash |-> row.file_hash, updated_time |-> row.updated_time,
     ocr_text |-> row.ocr_text, similarity |-> similarity]

\* a filter that drops the records exactly at the threshold
WithinThreshold_Strict(distance, threshold) == distance < threshold

\* `if distance <= threshold`
WithinThreshold(distance, threshold) == distance <= threshold

RECURSIVE ScanSimilar(_, _, _, _)
\* the for loop over fetchall(): rows with an empty phash are passed over,
\* rows within the threshold are appended with their similarity
ScanSimilar(t, scan, phash, threshold) ==
    IF scan = <<>> THEN <<>>
    ELSE LET row == t[Head(scan)]
             rest == ScanSimilar(t, Tail(scan), phash, threshold)
             distance == _hamming_distance(phash, row.phash)
         IN  IF row.phash = <<>> THEN rest
             ELSE IF WithinThreshold(distance, threshold)
                  THEN <<ResultOf(row, HashBits - distance)>> \o rest
                  ELSE rest

RECURSIVE InsertBySimilarity(_, _)
\* x goes before the first entry that is not more similar than x
InsertBySimilarity(x, sorted) ==
    IF sorted = <<>> THEN <<x>>
    ELSE IF Head(sorted).similarity <= x.similarity THEN <<x>> \o sorted
    ELSE <<Head(sorted)>> \o InsertBySimilarity(x, Tail(sorted))

RECURSIVE SortBySimilarity(_)
\* results.sort(key=similarity, reverse=True): stable, entries of equal
\* similarity keep their order
SortBySimilarity(results) ==
    IF results = <<>> THEN <<>>
    ELSE InsertBySimilarity(Head(results), SortBySimilarity(Tail(results)))

\* results[:max_results]
Slice(results, max_results) ==
    IF max_results >= 0 THEN SubSeq(results, 1, Min(Len(results), max_results))
    ELSE SubSeq(results, 1, Len(results) + max_results)

\* a search that goes to the phash scan whatever the content hashes are
search_similar_images_NoShortcut(t, exact_match, scan, query_features, threshold, max_results) ==
    IF ~query_features.readable THEN <<>>
    ELSE Slice(SortBySimilarity(ScanSimilar(t, scan, query_features.phash, threshold)),
               max_results)

\* exact_match is what fetchone() returned, scan what fetchall() would return
search_similar_images(t, exact_match, scan, query_features, threshold, max_results) ==
    IF ~query_features.readable THEN <<>>
    ELSE IF exact_match # NoRow THEN <<ResultOf(t[exact_match], HashBits)>>
    ELSE Slice(SortBySimilarity(ScanSimilar(t, scan, query_features.phash, threshold)),
               max_results)

InitSimilar ==
    /\ \E ft \in FingerprintTables :
          image_features = [i \in DOMAIN ft |->
                               InsertedRow(RowPaths[i], ft[i].file_hash, ft[i].phash, i)]
    /\ sqlite_sequence = Len(image_features)
    /\ Quiet
    /\ call \in [op : {"search_similar_images"}, query_features : QueryFeatures,
                 threshold : ThresholdArgs, max_results : 0..MaxResultsArg]
    /\ ret = NoRet

\* ret.scan is the list fetchall() returned, if the call got that far
search_similar_images_call ==
    /\ call.op = "search_similar_images"
    /\ ret = NoRet
    /\ \E exact_match \in FetchOne(ExactMatch(image_features, call.query_features.file_hash)),
          scan \in Scans(image_features) :
          ret' = [returned |-> TRUE,
                  value |-> search_similar_images(image_features, exact_match, scan,
                                call.query_features, call.threshold, call.max_results),
                  scan |-> IF call.query_features.readable /\ exact_match = NoRow
                           THEN scan ELSE <<>>]
    /\ UNCHANGED <<call, store>>

SpecSimilar == InitSimilar /\ [][search_similar_images_call]_vars

\* search_similar_images has returned for a query image that could be read
SearchReturned == call.op = "search_similar_images" /\ ret.returned /\ call.query_features.readable

\* the stored records with the query's content hash
SameContent == {i \in DOMAIN image_features :
                   image_features[i].file_hash = call.query_features.file_hash}

\* the paths of the returned list
ReturnedPaths == [k \in DOMAIN ret.value |-> ret.value[k].path]

(* C13: if a stored record has the query's content hash, the search returns  *)
(* exactly one result, a record with that content hash, with similarity 1.0, *)
(* for every threshold and max_results and whatever the perceptual hashes of *)
(* the other records are.                                                    *)
C13_ExactMatchReturnedAlone ==
    (SearchReturned /\ SameContent # {}) =>
        /\ Len(ret.value) = 1
        /\ ret.value[1].similarity = HashBits
        /\ \E i \in SameContent : ret.value[1] = ResultOf(image_features[i], HashBits)

\* an exact match is returned alone with max_results = 0 although a record of
\* other content has the query's phash and the threshold admits every record
C13_ExactMatchAmongSimilar ==
    /\ SearchReturned
    /\ Cardinality(SameContent) = 1
    /\ \E j \in DOMAIN image_features \ SameContent :
          image_features[j].phash = call.query_features.phash
    /\ call.threshold = MismatchDistance
    /\ call.max_results = 0
    /\ Len(ret.value) = 1

\* images A (h1, p1) and B (h2, p1) are the index, and the query is A
IndexIsAB ==
    /\ Len(image_features) = 2
    /\ image_features[1].file_hash = "h1" /\ image_features[2].file_hash = "h2"
    /\ image_features[1].phash = <<0, 0>> /\ image_features[2].phash = <<0, 0>>
    /\ call.query_features = [readable |-> TRUE, file_hash |-> "h1", phash |-> <<0, 0>>]
    /\ call.max_results = MaxResultsArg

(* C14 as stated: with A (h1, p1) and B (h2, p1) indexed, the search for A   *)
(* with threshold 0 returns only A, and with threshold 5 it returns A and B, *)
(* A first.                                                                  *)
C14_ThresholdFiveReturnsBoth ==
    (SearchReturned /\ IndexIsAB) =>
        /\ call.threshold = 0 => ReturnedPaths = <<"p1">>
        /\ call.threshold = 5 => ReturnedPaths = <<"p1", "p2">>

(* C14, amended: with A (h1, p1) and B (h2, p1) indexed, the search for A    *)
(* returns only A, with similarity 1.0, with threshold 0 and with threshold  *)
(* 5 alike: B is not returned although its phash distance is 0.              *)
C14_ExactMatchHidesNearMatch ==
    (SearchReturned /\ IndexIsAB /\ call.threshold \in {0, 5}) =>
        /\ ReturnedPaths = <<"p1">>
        /\ ret.value[1].similarity = HashBits

C14_SearchedABWithThresholdFive ==
    /\ SearchReturned /\ IndexIsAB
    /\ call.threshold = 5
    /\ Len(ret.value) = 1

\* position of id i in a scan
Pos(scan, i) == CHOOSE k \in DOMAIN scan : scan[k] = i

(* C15: when no stored record has the query's content hash, the search       *)
(* returns the first max_results entries of the list of the records with a   *)
(* non-empty phash and distance <= threshold, ordered by similarity          *)
(* 1 - distance/64 descending, ties in store scan order: the list has        *)
(* min(max_results, number of such records) entries, and its k-th entry is   *)
(* the record that exactly k - 1 such records precede in that order.  No     *)
(* record with distance > threshold is returned.                             *)
C15_NearMatchesRankedAndTruncated ==
    (SearchReturned /\ SameContent = {}) =>
        LET t == image_features
            Dist(i) == _hamming_distance(call.query_features.phash, t[i].phash)
            Near == {i \in DOMAIN t : /\ t[i].phash \notin {NULL, <<>>}
                                      /\ Dist(i) <= call.threshold}
            Before(i, j) == \/ Dist(i) < Dist(j)
                            \/ Dist(i) = Dist(j) /\ Pos(ret.scan, i) < Pos(ret.scan, j)
        IN  /\ Len(ret.value) = Min(Cardinality(Near), call.max_results)
            /\ \A k \in DOMAIN ret.value :
                  \E i \in Near :
                      /\ ret.value[k] = ResultOf(t[i], HashBits - Dist(i))
                      /\ Cardinality({j \in Near : Before(j, i)}) = k - 1

\* two tied near matches, scanned against id order, are cut to the one
\* scanned first, while a third record is over the threshold
C15_TieCutByMaxResults ==
    /\ SearchReturned /\ SameContent = {}
    /\ Len(image_features) = 3
    /\ call.max_results = 1 /\ call.threshold = 1
    /\ ReturnedPaths = <<"p2">>
    /\ image_features[1].phash = image_features[2].phash
    /\ ret.scan = <<2, 1, 3>>
    /\ image_features[3].phash # <<>>
    /\ _hamming_distance(call.query_features.phash, image_features[3].phash) > 1

----------------------------------------------------------------------------
(* _clean_text on its own *)

\* length of the texts normalized
MaxCleanLen == 5

\* a letter, a CJK ideograph, the underscore, the space, two line breaks, the
\* ideographic space and a punctuation mark
CleanInputChars == {"a", "zh", "us", "sp", "nl", "tab", "ids", "bang"}

InitClean ==
    /\ image_features = <<>>
    /\ sqlite_sequence = 0
    /\ Quiet
    /\ call \in [op : {"_clean_text"}, text : SeqsUpTo(CleanInputChars, MaxCleanLen)]
    /\ ret = NoRet

clean_text_call ==
    /\ call.op = "_clean_text"
    /\ ret = NoRet
    /\ ret' = Return(_clean_text(call.text))
    /\ UNCHANGED <<call, store>>

SpecClean == InitClean /\ [][clean_text_call]_vars

(* C17: _clean_text(_clean_text(t)) = _clean_text(t) for every text t, and   *)
(* the result holds no newline, tab or other whitespace than the space, no   *)
(* leading, trailing or repeated space, and no character besides CJK         *)
(* ideographs, word characters and single spaces.                            *)
C17_CleanTextNormalForm ==
    (call.op = "_clean_text" /\ ret.returned) =>
        LET r == ret.value
        IN  /\ _clean_text(r) = r
            /\ \A k \in DOMAIN r : r[k] \in (KeptChars \ Whitespace) \cup {"sp"}
            /\ r # <<>> => r[1] # "sp" /\ r[Len(r)] # "sp"
            /\ \A k \in 1..(Len(r) - 1) : ~(r[k] = "sp" /\ r[k + 1] = "sp")

\* punctuation between two spaces is removed and the two spaces become one
C17_NoiseBetweenSpaces ==
    /\ call.op = "_clean_text" /\ ret.returned
    /\ call.text = <<"a", "ids", "bang", "nl", "zh">>
    /\ ret.value = <<"a", "sp", "zh">>

----------------------------------------------------------------------------
(* Text search: search_by_text and its strategies.  Characters of the       *)
(* texts: the Latin letters "a" and "b", the ideograph "zh", written the    *)
(* same in both scripts, and "s1", "s2", simplified forms whose traditional *)
(* forms are "t1", "t2".                                                    *)

\* rows of the table searched by text
MaxTextRows == 3

\* largest max_results argument of a text search
MaxTextResultsArg == 2

Latin == {"a", "b"}

s2t(ch) == CASE ch = "s1" -> "t1" [] ch = "s2" -> "t2" [] OTHER -> ch
t2s(ch) == CASE ch = "t1" -> "s1" [] ch = "t2" -> "s2" [] OTHER -> ch

\* self.cc_s2t.convert(keyword), self.cc_t2s.convert(keyword)
cc_s2t(keyword) == [k \in DOMAIN keyword |-> s2t(keyword[k])]
cc_t2s(keyword) == [k \in DOMAIN keyword |-> t2s(keyword[k])]

\* words of the segmenter's dictionary
Dictionary == {<<"s1", "s2">>, <<"t1", "t2">>}

\* the longest prefix of t made of characters of S
RECURSIVE Run(_, _)
Run(t, S) == IF t # <<>> /\ Head(t) \in S THEN <<Head(t)>> \o Run(Tail(t), S) ELSE <<>>

RECURSIVE jieba_cut(_)
\* jieba.cut(text): a space, a Latin word, a dictionary word, or one ideograph
jieba_cut(text) ==
    IF text = <<>> THEN <<>>
    ELSE LET token ==
               IF Head(text) \in Latin THEN Run(text, Latin)
               ELSE IF Len(text) >= 2 /\ SubSeq(text, 1, 2) \in Dictionary
                    THEN SubSeq(text, 1, 2)
               ELSE <<Head(text)>>
         IN  <<token>> \o jieba_cut(SubSeq(text, Len(token) + 1, Len(text)))

\* [token for token in tokens if len(token.strip()) >= 2 and token.strip()]
_tokenize_text(text) ==
    IF text = <<>> THEN <<>>
    ELSE SelectSeq(jieba_cut(Strip(text)), LAMBDA token : Len(Strip(token)) >= 2)

\* x in the list l
InList(x, l) == \E k \in DOMAIN l : l[k] = x

RECURSIVE VariantsLoop(_, _)
\* the for loop of _get_all_variants, all_variants being the list so far
VariantsLoop(keywords, all_variants) ==
    IF keywords = <<>> THEN all_variants
    ELSE LET keyword == Head(keywords)
             simplified == cc_t2s(keyword)
             traditional == cc_s2t(keyword)
             v1 == Append(all_variants, keyword)
             v2 == IF traditional # keyword /\ ~InList(traditional, v1)
                   THEN Append(v1, traditional) ELSE v1
             v3 == IF simplified # keyword /\ ~InList(simplified, v2)
                   THEN Append(v2, simplified) ELSE v2
         IN  VariantsLoop(Tail(keywords), v3)

\* opencc: the converters were created in __init__ (hasattr)
_get_all_variants(keywords, opencc) ==
    IF ~opencc THEN keywords ELSE VariantsLoop(keywords, <<>>)

\* v is a substring of text
Contains(text, v) ==
    \E k \in 0..(Len(text) - Len(v)) : SubSeq(text, k + 1, k + Len(v)) = v

RECURSIVE Words(_)
\* the tokens the FTS5 tokenizer (unicode61) makes of a cleaned text: the
\* maximal runs of characters without a space; ideographs are not separated
Words(text) ==
    IF text = <<>> THEN {}
    ELSE IF Head(text) = "sp" THEN Words(Tail(text))
    ELSE LET w == Run(text, Chars \ Whitespace)
         IN  {w} \cup Words(SubSeq(text, Len(w) + 1, Len(text)))

\* the word every file_path holds for the tokenizer: the download folder
FolderWord == <<"a", "b">>

\* image_text_search MATCH '"v1" OR "v2" ...': a quoted variant matches a row
\* when it is a token of the row's file_path or ocr_text column
FtsMatches(t, variants) ==
    {i \in DOMAIN t :
        \E k \in DOMAIN variants :
            variants[k] \in Words(t[i].ocr_text) \cup {FolderWord}}

\* WHERE ocr_text LIKE '%v1%' OR ocr_text LIKE '%v2%' ...
LikeMatches(t, variants) ==
    {i \in DOMAIN t : \E k \in DOMAIN variants : Contains(t[i].ocr_text, variants[k])}

\* ORDER BY updated_time DESC: the orders the statement may return the rows in
ByUpdatedTime(t, S) ==
    {o \in Orders(S) :
        \A k \in 1..(Len(o) - 1) : t[o[k]].updated_time >= t[o[k + 1]].updated_time}

\* a result dictionary (the bm25 score of a ranked hit is left out)
TextResult(row, search_method) ==
    [path |-> row.file_path, telegram_message_id |-> row.telegram_message_id,
     updated_time |-> row.updated_time, search_method |-> search_method]

\* ... LIMIT ?, over the rows in the order the statement produces them
LimitRows(t, order, limit, search_method) ==
    [k \in 1..Min(Len(order), limit) |-> TextResult(t[order[k]], search_method)]

\* rank: the matching rows by bm25 score descending; fts_ok: the MATCH
\* statement runs (otherwise sqlite3.OperationalError is caught)
_fts_search_only(t, env, query_tokens, max_results) ==
    IF query_tokens = <<>> THEN <<>>
    ELSE IF ~env.fts_ok THEN <<>>
    ELSE LimitRows(t, env.rank, max_results, "FTS5")

\* like_order: the matching rows by updated_time descending
_like_search_only(t, env, query_tokens, cleaned_keywords, max_results) ==
    LimitRows(t, env.like_order, max_results, "LIKE")

\* a fallback taken whenever the ranked result is short of max_results
_smart_search_WhenShort(t, env, query_tokens, cleaned_keywords, max_results) ==
    LET results == _fts_search_only(t, env, query_tokens, max_results)
    IN  IF Len(results) >= max_results THEN results
        ELSE _like_search_only(t, env, query_tokens, cleaned_keywords, max_results)

_smart_search(t, env, query_tokens, cleaned_keywords, max_results) ==
    LET results == _fts_search_only(t, env, query_tokens, max_results)
    IN  IF results # <<>> THEN results
        ELSE _like_search_only(t, env, query_tokens, cleaned_keywords, max_results)

RECURSIVE MergeByPath(_, _)
\* results_map[path] = result for the paths not yet in the map
MergeByPath(merged, results) ==
    IF results = <<>> THEN merged
    ELSE MergeByPath(IF \E k \in DOMAIN merged : merged[k].path = Head(results).path
                     THEN merged ELSE Append(merged, Head(results)),
                     Tail(results))

RECURSIVE InsertByUpdatedTime(_, _)
InsertByUpdatedTime(x, sorted) ==
    IF sorted = <<>> THEN <<x>>
    ELSE IF Head(sorted).updated_time <= x.updated_time THEN <<x>> \o sorted
    ELSE <<Head(sorted)>> \o InsertByUpdatedTime(x, Tail(sorted))

RECURSIVE SortByUpdatedTime(_)
\* final_results.sort(key=updated_time, reverse=True) (stable)
SortByUpdatedTime(results) ==
    IF results = <<>> THEN <<>>
    ELSE InsertByUpdatedTime(Head(results), SortByUpdatedTime(Tail(results)))

_comprehensive_search(t, env, query_tokens, cleaned_keywords, max_results) ==
    LET fts_results == _fts_search_only(t, env, query_tokens, max_results * 2)
        like_results ==
            IF Len(fts_results) < max_results
            THEN _like_search_only(t, env, query_tokens, cleaned_keywords, max_results * 2)
            ELSE <<>>
        final_results == SortByUpdatedTime(MergeByPath(fts_results, like_results))
    IN  Slice(final_results, max_results)

\* the variants the LIKE statement is built from
LikeVariants(query_tokens, cleaned_keywords, opencc) ==
    IF query_tokens # <<>> THEN _get_all_variants(query_tokens, opencc)
    ELSE <<cleaned_keywords>>

\* the MATCH statement of this call raises an exception that the
\* `except sqlite3.OperationalError` of _fts_search_only does not catch
FtsRaises(env, query_tokens, search_mode) ==
    /\ search_mode # "like"
    /\ query_tokens # <<>>
    /\ ~env.fts_ok
    /\ env.fts_error # "OperationalError"

\* `except Exception: return []` ends a call whose MATCH statement raised
search_by_text(t, env, keywords, max_results, search_mode) ==
    LET cleaned_keywords == _clean_text(keywords)
        query_tokens == _tokenize_text(cleaned_keywords)
    IN  IF cleaned_keywords = <<>> THEN <<>>
        ELSE IF FtsRaises(env, query_tokens, search_mode) THEN <<>>
        ELSE IF search_mode = "comprehensive"
             THEN _comprehensive_search(t, env, query_tokens, cleaned_keywords, max_results)
        ELSE IF search_mode = "fts"
             THEN _fts_search_only(t, env, query_tokens, max_results)
        ELSE IF search_mode = "like"
             THEN _like_search_only(t, env, query_tokens, cleaned_keywords, max_results)
        ELSE _smart_search(t, env, query_tokens, cleaned_keywords, max_results)

\* what the two statements of a call return on table t, for each outcome of
\* the MATCH statement and each admissible order of the rows.  A MATCH
\* statement that fails raises sqlite3.OperationalError (no such table, SQL
\* logic error) unless the call names another class: sqlite3.DatabaseError is
\* what a malformed index raises
Environments(t, c) ==
    LET cleaned_keywords == _clean_text(c.keywords)
        query_tokens == _tokenize_text(cleaned_keywords)
    IN  [fts_ok : {c.fts_ok},
         fts_error : {IF "fts_error" \in DOMAIN c THEN c.fts_error ELSE "OperationalError"},
         rank : Orders(FtsMatches(t, _get_all_variants(query_tokens, c.opencc))),
         like_order : ByUpdatedTime(t, LikeMatches(t, LikeVariants(query_tokens,
                                                      cleaned_keywords, c.opencc)))]

SearchModes == {"smart", "comprehensive", "fts", "like", "other"}

\* ocr_text values stored: none yet, a traditional word alone, the same word
\* inside a longer run of ideographs, a simplified word and a Latin word, and
\* a single traditional character after an ideograph
RowTexts ==
    { <<>>, <<"t1", "t2">>, <<"zh", "t1", "t2">>, <<"s1", "s2", "sp", "a", "b">>,
      <<"zh", "t1">> }

\* keywords typed by the user
Keywords ==
    { <<"s1", "s2">>, <<"sp", "t1", "t2", "bang">>, <<"s1">>, <<"a", "b">>, <<"bang">> }

\* the tables searched: every choice of ocr_text per row, and every order of
\* the rows' update times
TextTables ==
    UNION { { [i \in 1..n |->
                 [InsertedRow(RowPaths[i], "h1", <<>>, time[i])
                     EXCEPT !.ocr_text = texts[i],
                            !.ocr_status = IF texts[i] = <<>> THEN "pending" ELSE "completed"]] :
              texts \in [1..n -> RowTexts], time \in Orders(1..n) } :
            n \in 0..MaxTextRows }

InitText ==
    /\ image_features \in TextTables
    /\ sqlite_sequence = Len(image_features)
    /\ Quiet
    /\ call \in [op : {"search_by_text"}, keywords : Keywords,
                 max_results : 1..MaxTextResultsArg, search_mode : SearchModes,
                 fts_ok : BOOLEAN, opencc : BOOLEAN]
    /\ ret = NoRet

search_by_text_call ==
    /\ call.op = "search_by_text"
    /\ ret = NoRet
    /\ \E env \in Environments(image_features, call) :
          ret' = [returned |-> TRUE,
                  value |-> search_by_text(image_features, env, call.keywords,
                                           call.max_results, call.search_mode),
                  rank |-> env.rank]
    /\ UNCHANGED <<call, store>>

SpecText == InitText /\ [][search_by_text_call]_vars

\* search_by_text has returned; the cleaned keywords, tokens and variants of
\* the call, and the rows each strategy's statement matches
TextReturned == call.op = "search_by_text" /\ ret.returned
Cleaned == _clean_text(call.keywords)
Tokens == _tokenize_text(Cleaned)
Ranked ==
    IF call.fts_ok THEN FtsMatches(image_features, _get_all_variants(Tokens, call.opencc))
    ELSE {}
Substring == LikeMatches(image_features, LikeVariants(Tokens, Cleaned, call.opencc))

\* rows of S updated more recently than row i
Newer(S, i) ==
    {j \in S : image_features[j].updated_time > image_features[i].updated_time}

C19_ComprehensiveIsNewestOfUnion ==
    (TextReturned /\ call.search_mode = "comprehensive" /\ Cleaned # <<>>) =>
        LET t == image_features
            Union == Ranked \cup Substring
            n == Len(ret.value)
        IN  /\ n = Min(Cardinality(Union), call.max_results)
            /\ \A k \in 1..n :
                  \E i \in Union :
                      /\ ret.value[k] =
                           TextResult(t[i], IF i \in Ranked THEN "FTS5" ELSE "LIKE")
                      /\ Cardinality(Newer(Union, i)) = k - 1

\* the keyword written in the other script, and the modes of the claim
OtherScript == IF cc_s2t(Cleaned) # Cleaned THEN cc_s2t(Cleaned) ELSE cc_t2s(Cleaned)
NamedModes == {"smart", "comprehensive", "fts", "like"}

(* C20: for every keyword that has a form in the other script, a search with *)
(* the keyword returns every record whose ocr_text contains that other form  *)
(* and not the keyword itself (a simplified keyword finds the traditional    *)
(* text and the other way round), in smart, comprehensive, ranked-only and   *)
(* substring-only mode, when max_results leaves room for every record.       *)
C20_CrossScriptRoundTrip ==
    (/\ TextReturned
     /\ call.search_mode \in NamedModes
     /\ call.opencc /\ call.fts_ok
     /\ Cleaned # <<>> /\ OtherScript # Cleaned
     /\ Len(image_features) <= call.max_results) =>
        \A i \in DOMAIN image_features :
            (/\ Contains(image_features[i].ocr_text, OtherScript)
             /\ ~Contains(image_features[i].ocr_text, Cleaned)) =>
                \E k \in DOMAIN ret.value : ret.value[k].path = image_features[i].file_path

----------------------------------------------------------------------------
(* Record identity *)

\* the id under which the table holds a file_path (0: no record holds it)
IdOfPath(t, file_path) ==
    IF \E i \in DOMAIN t : t[i].file_path = file_path
    THEN CHOOSE i \in DOMAIN t : t[i].file_path = file_path
    ELSE 0

\* C21: the id of the record of an indexed image never changes once assigned:
\* in every step, each record that exists keeps its id (the id still exists
\* afterwards, and the record that holds its file_path afterwards is the one
\* with that id), so the UPDATE ... WHERE id = ? of a batch that claimed
\* (id, file_path) still finds the record.
C21_RecordIdNeverChanges ==
    [][\A i \in DOMAIN image_features :
          /\ i \in DOMAIN image_features'
          /\ IdOfPath(image_features', image_features[i].file_path) \in {0, i}]_vars

----------------------------------------------------------------------------
(* update_archived_file_paths on any table and any list of path pairs *)

\* (old_path, new_path) pairs in a call of update_archived_file_paths
MaxMappings == 2

\* the OCR states a stored record may be in
RowStates ==
    { [ocr_status |-> "pending", ocr_fail_count |-> 0, ocr_text |-> <<>>],
      [ocr_status |-> "completed", ocr_fail_count |-> 0, ocr_text |-> <<"a">>],
      [ocr_status |-> "failed", ocr_fail_count |-> 1, ocr_text |-> <<>>] }

\* the tables rewritten: every choice of OCR state per row
StateTables ==
    UNION { { [i \in 1..n |->
                 [InsertedRow(RowPaths[i], NewFileContent(RowPaths[i]), <<0, i>>, i)
                     EXCEPT !.ocr_status = st[i].ocr_status,
                            !.ocr_fail_count = st[i].ocr_fail_count,
                            !.ocr_text = st[i].ocr_text]] :
              st \in [1..n -> RowStates] } :
            n \in 0..MaxRows }

PathMappings == SeqsUpTo(Paths \X Paths, MaxMappings)

InitRewrite ==
    /\ image_features \in StateTables
    /\ sqlite_sequence = Len(image_features)
    /\ Quiet
    /\ call \in [op : {"update_archived_file_paths"}, path_mappings : PathMappings]
    /\ ret = NoRet

\* ret.before is the table as the call found it
update_archived_file_paths_call ==
    /\ call.op = "update_archived_file_paths"
    /\ ret = NoRet
    /\ image_features' = update_archived_file_paths(image_features, call.path_mappings)
    /\ ret' = [returned |-> TRUE, before |-> image_features]
    /\ Indexed
    /\ UNCHANGED <<call, sqlite_sequence, files, ocr_engine, pc, pending_images, stats,
                   archive_moves, last_override, last_claim, calls, events>>
    /\ UNCHANGED <<_db_lock, conn, threads, task>>

SpecRewrite == InitRewrite /\ [][update_archived_file_paths_call]_vars

\* update_archived_file_paths has returned
Rewritten == call.op = "update_archived_file_paths" /\ ret.returned

\* the old paths of the call's pairs
OldPaths == {call.path_mappings[k][1] : k \in DOMAIN call.path_mappings}

----------------------------------------------------------------------------
(* The full-text index *)

\* C23: after every committed insert, replace, update or path rewrite on
\* image_features, the full-text index holds exactly one entry per existing
\* record, under rowid = id and with the record's current file_path and
\* ocr_text, and no entry for an id that no longer exists.
C23_IndexMirrorsRecords == image_text_search = IndexOf(image_features)

----------------------------------------------------------------------------
(* The lock: store operations of the searcher called by two threads, step   *)
(* by step.  call.program[t] is the operation thread t runs, once:          *)
(*   _mark_ocr_skipped(img_id)   with self._db_lock: cursor(); try: UPDATE; *)
(*                               commit() / except: rollback()              *)
(*   get_pending_ocr_count()     with self._db_lock: cursor(); try: SELECT  *)
(*   close()                     cleanup_ocr_resources(); self.conn.close() *)

StoreOperations == {"_mark_ocr_skipped", "get_pending_ocr_count", "close"}

InitLock ==
    /\ image_features \in StateTables
    /\ sqlite_sequence = Len(image_features)
    /\ Quiet
    /\ call \in [op : {"threads"}, program : [Threads -> StoreOperations], img_id : Ids]
    /\ ret = NoRet

\* a step of thread t that changes only the lock, the connection and positions
LockStep(t, at) ==
    /\ threads' = [threads EXCEPT ![t] = at]
    /\ UNCHANGED <<call, ret, sqlite_sequence, files, ocr_engine, pc, pending_images,
                   stats, archive_moves, last_override, last_claim, calls, events, task>>

\* `with self._db_lock:` entered (the other thread waits while the lock is held)
lock_acquire(t) ==
    /\ call.op = "threads"
    /\ call.program[t] # "close"
    /\ threads[t] = "idle"
    /\ _db_lock = "free"
    /\ _db_lock' = t
    /\ LockStep(t, "locked")
    /\ UNCHANGED <<conn, image_features, image_text_search>>

\* cursor = self.conn.cursor(), then the statement inside try.  On a closed
\* connection cursor() raises sqlite3.ProgrammingError before the try block:
\* the exception leaves the with block, which releases the lock
lock_execute(t) ==
    /\ threads[t] = "locked"
    /\ IF conn.state = "open"
       THEN /\ conn' = [conn EXCEPT !.in_transaction = (call.program[t] = "_mark_ocr_skipped"),
                                    !.by = t]
            /\ LockStep(t, "executed")
            /\ UNCHANGED _db_lock
       ELSE /\ conn' = [conn EXCEPT !.by = t]
            /\ _db_lock' = "free"
            /\ LockStep(t, "raised")
    /\ UNCHANGED <<image_features, image_text_search>>

\* self.conn.commit() (ok), or the statement or the commit raised and the
\* except block ran self.conn.rollback(); a query has nothing to commit.
\* On a connection closed meanwhile commit() raises and so does rollback() in
\* the except block: the exception leaves the with block
lock_commit(t, ok) ==
    /\ threads[t] = "executed"
    /\ IF conn.state = "open"
       THEN /\ conn' = [conn EXCEPT !.in_transaction = FALSE, !.by = t]
            /\ image_features' =
                 IF ok /\ call.program[t] = "_mark_ocr_skipped"
                 THEN _mark_ocr_skipped(image_features, call.img_id)
                 ELSE image_features
            /\ LockStep(t, "ended")
            /\ UNCHANGED _db_lock
       ELSE /\ conn' = [conn EXCEPT !.by = t]
            /\ _db_lock' = "free"
            /\ LockStep(t, "raised")
            /\ UNCHANGED image_features
    /\ Indexed

\* the with block is left
lock_release(t) ==
    /\ threads[t] = "ended"
    /\ _db_lock' = "free"
    /\ LockStep(t, "returned")
    /\ UNCHANGED <<conn, image_features, image_text_search>>

\* close(): cleanup_ocr_resources() finds no engine; `if self.conn:
\* self.conn.close()`, which drops a transaction in progress
lock_close(t) ==
    /\ call.op = "threads"
    /\ call.program[t] = "close"
    /\ threads[t] = "idle"
    /\ conn' = [state |-> "closed", in_transaction |-> FALSE, by |-> t]
    /\ LockStep(t, "returned")
    /\ UNCHANGED <<_db_lock, image_features, image_text_search>>

NextLock ==
    \/ \E t \in Threads : lock_acquire(t)
    \/ \E t \in Threads : lock_execute(t)
    \/ \E t \in Threads, ok \in BOOLEAN : lock_commit(t, ok)
    \/ \E t \in Threads : lock_release(t)
    \/ \E t \in Threads : lock_close(t)

SpecLock == InitLock /\ [][NextLock]_vars

\* C24: every operation that reads or writes the shared connection, close
\* included, runs while holding _db_lock: each use of the connection is made
\* by the thread that holds the lock (so no two threads are inside store
\* operations at once), and a thread gives up the lock only after its
\* operation has committed or rolled back.
C24_ConnectionUsedUnderLock ==
    [][/\ conn' # conn => _db_lock = conn'.by
       /\ \A t \in Threads : (_db_lock = t /\ _db_lock' # t) => threads[t] = "ended"]_vars

----------------------------------------------------------------------------
(* The engine handle *)

\* the call of batch thread b returns in this step
Returns(b) == pc[b] # "idle" /\ pc'[b] = "idle"

\* C25: the OCR engine is loaded only by a batch that has claimed at least one
\* record, and whenever a call of process_ocr_pending_images returns (after
\* its loop, on an empty queue, or after an internal error) the engine handle
\* is None; cleanup_ocr_resources on a handle that is already None changes
\* nothing.
C25_EngineLoadedLazilyAndReleased ==
    [][/\ (ocr_engine # "loaded" /\ ocr_engine' = "loaded")
            => \E b \in Batches : pending_images[b] # <<>> \/ pending_images'[b] # <<>>
       /\ \A b \in Batches : Returns(b) => ocr_engine' = "None"
       /\ \A b \in Batches :
             (pc[b] \in ReturnPcs /\ ocr_engine = "None" /\ pc'[b] # pc[b])
                => ocr_engine' = "None" /\ Returns(b)]_vars

----------------------------------------------------------------------------
(* The two drivers of the batch *)

\* a call of process_ocr_pending_images by thread b is in progress
InProgress(b) == pc[b] # "idle"

\* C26: no two executions of process_ocr_pending_images overlap in time: the
\* batch of scheduled_ocr_task and the batch of the /ocr command are never in
\* progress at once (so neither releases the engine while the other is
\* recognising a record).
C26_BatchesNeverOverlap == ~(InProgress("scheduled") /\ InProgress("command"))

----------------------------------------------------------------------------
(* scheduled_ocr_task, run once on a store that no other thread touches *)

OCR_MAX_RETRIES == 3
OCR_BATCH_SIZE == 5

\* SELECT COUNT(*) FROM image_features WHERE ocr_status = 'pending'.  The bot
\* passes OCR_MAX_RETRIES, of which the statement makes no use
get_pending_ocr_count(t, max_retries) ==
    Cardinality({i \in DOMAIN t : t[i].ocr_status = "pending"})

\* what the file at a record's path may be when the job runs
FileStates(p) == {NewFileContent(p), "missing", "empty"}

InitScheduled ==
    /\ \E n \in 0..Min(MaxId, Len(DownloadPathList)) :
          \E st \in [1..n -> RowStates], fs \in [1..n -> Hashes \cup {"missing", "empty"}] :
             /\ \A i \in 1..n : fs[i] \in FileStates(DownloadPathList[i])
             /\ image_features =
                  [i \in 1..n |->
                      [NewRow(DownloadPathList[i], NewFileContent(DownloadPathList[i]),
                              MessageIdOf(DownloadPathList[i]))
                         EXCEPT !.ocr_status = st[i].ocr_status,
                                !.ocr_fail_count = st[i].ocr_fail_count,
                                !.ocr_text = st[i].ocr_text]]
             /\ files = [p \in Paths |->
                           IF \E i \in 1..n : DownloadPathList[i] = p
                           THEN fs[CHOOSE i \in 1..n : DownloadPathList[i] = p]
                           ELSE "missing"]
    /\ sqlite_sequence = Len(image_features)
    /\ ocr_engine = "None"
    /\ pc = [b \in Batches |-> "idle"]
    /\ pending_images = [b \in Batches |-> <<>>]
    /\ stats = [b \in Batches |-> ZeroStats]
    /\ archive_moves = <<>>
    /\ last_override = NoOverride
    /\ last_claim = NoClaim
    /\ calls = 0
    /\ events = 0
    /\ image_text_search = IndexOf(image_features)
    /\ Unlocked
    /\ call = NoCall
    /\ ret = NoRet

\* a step of the coroutine itself
TaskStep(new) ==
    /\ task' = new
    /\ UNCHANGED <<image_features, sqlite_sequence, files, ocr_engine, pc, pending_images,
                   stats, archive_moves, last_override, last_claim, calls, events,
                   call, ret, image_text_search, _db_lock, conn, threads>>

\* the run ends with its report sent, or in the except block when
\* context.bot.send_message raises
Ended(sent) == IF sent THEN "finished" ELSE "error"

\* the records a batch with max_retries would still retry
Retryable(t, max_retries) ==
    {i \in DOMAIN t : t[i].ocr_status = "failed" /\ t[i].ocr_fail_count < max_retries}

\* pending_count = searcher.get_pending_ocr_count(OCR_MAX_RETRIES);
\* if pending_count == 0: send "no pending images" and return
task_start(sent) ==
    /\ task.pc = "idle"
    /\ TaskStep([pc |-> IF get_pending_ocr_count(image_features, OCR_MAX_RETRIES) = 0
                        THEN Ended(sent) ELSE "loop",
                 retryable |-> Retryable(image_features, OCR_MAX_RETRIES),
                 attempted |-> {},
                 processed |-> 0])

\* while True: remaining = get_pending_ocr_count(...); if remaining == 0: break
task_remaining(sent) ==
    /\ task.pc = "loop"
    /\ TaskStep([task EXCEPT !.pc = IF get_pending_ocr_count(image_features, OCR_MAX_RETRIES) = 0
                                    THEN Ended(sent) ELSE "call"])

\* run_in_executor(process_ocr_pending_images(batch_size=OCR_BATCH_SIZE,
\* max_retries=OCR_MAX_RETRIES)): the call claims and acquires the engine
task_call(sel) ==
    /\ task.pc = "call"
    /\ process_claim("scheduled", OCR_BATCH_SIZE, OCR_MAX_RETRIES, sel)

task_call_error(sel) ==
    /\ task.pc = "call"
    /\ process_claim_error("scheduled", OCR_BATCH_SIZE, OCR_MAX_RETRIES, sel)

\* the coroutine awaits the call; the call's loop goes through the claimed
\* records (after a failed acquisition of the engine it goes through none)
task_await ==
    /\ task.pc = "call"
    /\ pc["scheduled"] # "idle"
    /\ TaskStep([task EXCEPT
                   !.pc = "await",
                   !.attempted = @ \cup
                       IF pc["scheduled"] = "exists"
                       THEN {pending_images["scheduled"][k][1] :
                               k \in DOMAIN pending_images["scheduled"]}
                       ELSE {}])

\* the steps of the call's loop
task_batch_step ==
    /\ task.pc = "await"
    /\ \/ \E ok \in BOOLEAN : process_missing("scheduled", ok)
       \/ process_exists("scheduled")
       \/ \E ok \in BOOLEAN : process_empty("scheduled", ok)
       \/ \E result \in EngineResults, ok \in BOOLEAN : process_recognize("scheduled", result, ok)

\* `return stats`: the value the coroutine will receive
task_return ==
    /\ task.pc = "await"
    /\ pc["scheduled"] \in ReturnPcs
    /\ TaskStep([task EXCEPT !.pc = "returned", !.processed = stats["scheduled"].processed])

\* the call's finally block
task_batch_finally ==
    /\ task.pc = "returned"
    /\ \/ process_finally("scheduled")
       \/ process_cleanup("scheduled")

\* stats = await ...; if stats['processed'] == 0: break
task_continue(sent) ==
    /\ task.pc = "returned"
    /\ pc["scheduled"] = "idle"
    /\ TaskStep([task EXCEPT !.pc = IF task.processed = 0 THEN Ended(sent) ELSE "loop"])

NextScheduled ==
    \/ \E sent \in BOOLEAN : task_start(sent)
    \/ \E sent \in BOOLEAN : task_remaining(sent)
    \/ \E sel \in SelectPending(image_features, OCR_BATCH_SIZE, OCR_MAX_RETRIES) : task_call(sel)
    \/ \E sel \in SelectPending(image_features, OCR_BATCH_SIZE, OCR_MAX_RETRIES) : task_call_error(sel)
    \/ task_await
    \/ task_batch_step
    \/ task_return
    \/ task_batch_finally
    \/ \E sent \in BOOLEAN : task_continue(sent)

SpecScheduled == InitScheduled /\ [][NextScheduled]_vars

\* C27: the scheduled task keeps calling process_ocr_pending_images until all
\* pending images are done: whenever scheduled_ocr_task finishes without an
\* error, no record with ocr_status 'pending' remains in the store.
C27_FinishedLeavesNoPending ==
    task.pc = "finished" =>
        \A i \in DOMAIN image_features : image_features[i].ocr_status # "pending"

\* C28: every run of scheduled_ocr_task that starts while some record is
\* 'failed' with ocr_fail_count < OCR_MAX_RETRIES attempts that record before
\* the run ends (stated of the runs that end with their report sent).
C28_RunRetriesFailedRecords ==
    task.pc = "finished" => task.retryable \subseteq task.attempted

----------------------------------------------------------------------------
(* The handlers of the bot, each run on one update.  The update is drawn by  *)
(* the initial state: its sender, the photo it carries or replies to (named  *)
(* by the permanent path of that photo) and its arguments.  Downloads go to  *)
(* temporary files outside the folders of the model and are removed again.   *)

ALLOWED_USER_ID == 123456

\* senders: the allowed user and somebody else
UserIds == {ALLOWED_USER_ID, ALLOWED_USER_ID + 1}

Handlers ==
    {"handle_photo", "find_command", "ocr_command", "tag_command", "untag_command",
     "setmessageid_command", "getocr_command", "failed_command"}

\* a handler that serves every sender
Authorized_Anyone(user_id) == TRUE

\* `if update.message.from_user.id != ALLOWED_USER_ID: return` does not return
Authorized(user_id) == user_id = ALLOWED_USER_ID

\* UPDATE image_features SET telegram_message_id = ? WHERE id = ?
set_message_id_by_hash(t, img_id, message_id) ==
    SqlUpdate(t, img_id, [telegram_message_id |-> message_id])

\* what an unauthorised update must leave alone
Snapshot ==
    [image_features |-> image_features, files |-> files,
     image_text_search |-> image_text_search, sqlite_sequence |-> sqlite_sequence]

InitAuth ==
    /\ \E n \in 0..Min(MaxId, Len(DownloadPathList)) :
          \E st \in [1..n -> RowStates], fs \in [1..n -> Hashes \cup {"missing", "empty"}] :
             /\ \A i \in 1..n : fs[i] \in FileStates(DownloadPathList[i])
             /\ image_features =
                  [i \in 1..n |->
                      [NewRow(DownloadPathList[i], NewFileContent(DownloadPathList[i]),
                              MessageIdOf(DownloadPathList[i]))
                         EXCEPT !.ocr_status = st[i].ocr_status,
                                !.ocr_fail_count = st[i].ocr_fail_count,
                                !.ocr_text = st[i].ocr_text]]
             /\ files = [p \in Paths |->
                           IF \E i \in 1..n : DownloadPathList[i] = p
                           THEN fs[CHOOSE i \in 1..n : DownloadPathList[i] = p]
                           ELSE "missing"]
    /\ sqlite_sequence = Len(image_features)
    /\ ocr_engine = "None"
    /\ pc = [b \in Batches |-> "idle"]
    /\ pending_images = [b \in Batches |-> <<>>]
    /\ stats = [b \in Batches |-> ZeroStats]
    /\ archive_moves = <<>>
    /\ last_override = NoOverride
    /\ last_claim = NoClaim
    /\ calls = 0
    /\ events = 0
    /\ image_text_search = IndexOf(image_features)
    /\ Unlocked
    /\ call \in [op : Handlers, from_user : UserIds, path : DownloadPaths]
    /\ ret = [pc |-> "received", searcher_calls |-> <<>>, processed |-> 0,
              before |-> Snapshot]

\* a step of a handler that writes nothing to the store or the folders: the
\* handler moves on, having called the searcher operations `ops`
HandlerReads(at, ops) ==
    /\ ret' = [ret EXCEPT !.pc = at, !.searcher_calls = @ \o ops]
    /\ UNCHANGED <<image_features, sqlite_sequence, files, ocr_engine, pc, pending_images,
                   stats, archive_moves, last_override, last_claim, calls, events,
                   call, image_text_search, _db_lock, conn, threads, task>>

\* a step of a handler that writes the table
HandlerWrites(t, at, ops) ==
    /\ image_features' = t
    /\ Indexed
    /\ ret' = [ret EXCEPT !.pc = at, !.searcher_calls = @ \o ops]
    /\ UNCHANGED <<sqlite_sequence, files, ocr_engine, pc, pending_images,
                   stats, archive_moves, last_override, last_claim, calls, events,
                   call, _db_lock, conn, threads, task>>

\* the first statement of every handler
update_check ==
    /\ ret.pc = "received"
    /\ HandlerReads(IF Authorized(call.from_user) THEN "authorized" ELSE "returned", <<>>)

\* the rows search_similar_images(temp, threshold=0, max_results=1) may return
\* with similarity 1.0 for the photo of the update
PhotoMatch == ExactMatch(image_features, NewFileContent(call.path))

\* handle_photo_with_retry without the caption /find: a duplicate is reported,
\* a new photo is renamed to its permanent path and added to the index
photo_body ==
    /\ ret.pc = "authorized"
    /\ call.op = "handle_photo"
    /\ IF PhotoMatch # {}
       THEN HandlerReads("returned", <<"search_similar_images">>)
       ELSE /\ files' = [files EXCEPT ![call.path] = NewFileContent(call.path)]
            /\ image_features' = add_image_to_index(image_features, sqlite_sequence, call.path,
                                                    NewFileContent(call.path),
                                                    MessageIdOf(call.path))
            /\ sqlite_sequence' = sqlite_sequence + 1
            /\ Indexed
            /\ ret' = [ret EXCEPT !.pc = "returned",
                                   !.searcher_calls = <<"search_similar_images",
                                                        "add_image_to_index",
                                                        "get_pending_ocr_count">>]
            /\ UNCHANGED <<ocr_engine, pc, pending_images, stats, archive_moves,
                           last_override, last_claim, calls, events, call,
                           _db_lock, conn, threads, task>>

\* /find with keywords
find_body ==
    /\ ret.pc = "authorized"
    /\ call.op = "find_command"
    /\ HandlerReads("returned", <<"search_by_text">>)

\* /tag in reply to a photo: the record is found by search, then overridden
tag_body ==
    /\ ret.pc = "authorized"
    /\ call.op = "tag_command"
    /\ IF PhotoMatch = {}
       THEN HandlerReads("returned", <<"search_similar_images">>)
       ELSE \E text \in ManualTexts, id \in PhotoMatch :
               HandlerWrites(ManualUpdate(image_features, id, text), "returned",
                             <<"search_similar_images", "set_manual_ocr_result_by_hash",
                               "get_pending_ocr_count">>)

\* /link in reply to a photo: a record without a message id is given one
link_body ==
    /\ ret.pc = "authorized"
    /\ call.op = "setmessageid_command"
    /\ \/ /\ \A id \in PhotoMatch : image_features[id].telegram_message_id # ""
          /\ HandlerReads("returned", <<"search_similar_images">>)
       \/ \E id \in PhotoMatch :
             /\ image_features[id].telegram_message_id = ""
             /\ HandlerWrites(set_message_id_by_hash(image_features, id, "m2"), "returned",
                              <<"search_similar_images", "set_message_id_by_hash">>)

\* /untag in reply to a photo: a record with a message id is cleared
untag_body ==
    /\ ret.pc = "authorized"
    /\ call.op = "untag_command"
    /\ \/ /\ \A id \in PhotoMatch : image_features[id].telegram_message_id = ""
          /\ HandlerReads("returned", <<"search_similar_images">>)
       \/ \E found \in PhotoMatch :
             /\ image_features[found].telegram_message_id # ""
             /\ \E id \in RowsByMessageId(image_features,
                                          image_features[found].telegram_message_id) :
                   HandlerWrites(ClearUpdate(image_features, id), "returned",
                                 <<"search_similar_images", "clear_ocr_result",
                                   "get_pending_ocr_count">>)

\* /getocr -l <message id>
getocr_body ==
    /\ ret.pc = "authorized"
    /\ call.op = "getocr_command"
    /\ HandlerReads("returned", <<"get_ocr_by_message_id">>)

\* /failed: the count of failed records and, unless it is 0, the records
failed_body(some) ==
    /\ ret.pc = "authorized"
    /\ call.op = "failed_command"
    /\ HandlerReads("returned",
                    IF some THEN <<"get_failed_ocr_count", "get_failed_ocr_records">>
                    ELSE <<"get_failed_ocr_count">>)

\* /ocr, the steps of the coroutine
ocr_body ==
    /\ call.op = "ocr_command"
    /\ \/ \* pending_count = searcher.get_pending_ocr_count(OCR_MAX_RETRIES);
          \* if pending_count == 0: reply and return
          /\ ret.pc = "authorized"
          /\ HandlerReads(IF get_pending_ocr_count(image_features, OCR_MAX_RETRIES) = 0
                          THEN "returned" ELSE "loop",
                          <<"get_pending_ocr_count">>)
       \/ \* while iteration < max_iterations: remaining = get_pending_ocr_count(...);
          \* if remaining == 0: break; else the batch is handed to the executor
          /\ ret.pc = "loop"
          /\ IF get_pending_ocr_count(image_features, OCR_MAX_RETRIES) = 0
             THEN HandlerReads("returned", <<"get_pending_ocr_count">>)
             ELSE HandlerReads("call", <<"get_pending_ocr_count",
                                         "process_ocr_pending_images">>)
       \/ \* await loop.run_in_executor(...): the call has begun
          /\ ret.pc = "call"
          /\ pc["command"] # "idle"
          /\ HandlerReads("await", <<>>)
       \/ \* `return stats`: the value the handler will receive
          /\ ret.pc = "await"
          /\ pc["command"] \in ReturnPcs
          /\ ret' = [ret EXCEPT !.pc = "batch_returned",
                                !.processed = stats["command"].processed]
          /\ UNCHANGED <<image_features, sqlite_sequence, files, ocr_engine, pc,
                         pending_images, stats, archive_moves, last_override, last_claim,
                         calls, events, call, image_text_search, _db_lock, conn, threads,
                         task>>
       \/ \* stats = await ...; if stats['processed'] == 0: break
          /\ ret.pc = "batch_returned"
          /\ pc["command"] = "idle"
          /\ HandlerReads(IF ret.processed = 0 THEN "returned" ELSE "loop", <<>>)

\* /ocr, the steps of the call of process_ocr_pending_images in the executor:
\* the claim (the engine is acquired, or its acquisition raises), the loop
\* over the claimed records, the finally block
ocr_batch ==
    \/ /\ ret.pc = "call"
       /\ \E sel \in SelectPending(image_features, OCR_BATCH_SIZE, OCR_MAX_RETRIES) :
             \/ process_claim("command", OCR_BATCH_SIZE, OCR_MAX_RETRIES, sel)
             \/ process_claim_error("command", OCR_BATCH_SIZE, OCR_MAX_RETRIES, sel)
    \/ /\ ret.pc = "await"
       /\ \/ \E ok \in BOOLEAN : process_missing("command", ok)
          \/ process_exists("command")
          \/ \E ok \in BOOLEAN : process_empty("command", ok)
          \/ \E result \in EngineResults, ok \in BOOLEAN :
                process_recognize("command", result, ok)
    \/ /\ ret.pc = "batch_returned"
       /\ \/ process_finally("command")
          \/ process_cleanup("command")

NextAuth ==
    \/ update_check
    \/ photo_body
    \/ find_body
    \/ tag_body
    \/ link_body
    \/ untag_body
    \/ getocr_body
    \/ \E some \in BOOLEAN : failed_body(some)
    \/ ocr_body
    \/ ocr_batch

SpecAuth == InitAuth /\ [][NextAuth]_vars

\* C29: only the allowed user can interact with the bot: for every handler, an
\* update whose sender id differs from ALLOWED_USER_ID triggers no searcher
\* operation and changes neither the index (table, full-text index, id
\* sequence) nor any file, and starts no batch.
C29_UnauthorizedUpdateIgnored ==
    call.from_user # ALLOWED_USER_ID =>
        /\ ret.searcher_calls = <<>>
        /\ Snapshot = ret.before
        /\ ret.pc \in {"received", "returned"}
        /\ pc["command"] = "idle"
        /\ ocr_engine = "None"

\* /tag from another sender, in reply to the photo of a pending record, has
\* been handled and the record is still pending
C29_UnauthorizedTagHandled ==
    /\ call.from_user # ALLOWED_USER_ID
    /\ call.op = "tag_command"
    /\ ret.pc = "returned"
    /\ \E id \in PhotoMatch : image_features[id].ocr_status = "pending"

----------------------------------------------------------------------------
(* Text and status *)

\* C30: a record's ocr_text is non-empty only if its ocr_status is
\* 'completed': in every reachable state, including interleavings of a batch
\* with manual overrides, records in status pending, failed or skipped have
\* empty ocr_text.
C30_TextOnlyWhenCompleted ==
    \A i \in DOMAIN image_features :
        image_features[i].ocr_text # <<>> => image_features[i].ocr_status = "completed"

----------------------------------------------------------------------------
(* search_by_text when the MATCH statement fails *)

FtsErrors == {"OperationalError", "DatabaseError"}

InitTextFault ==
    /\ image_features \in TextTables
    /\ sqlite_sequence = Len(image_features)
    /\ Quiet
    /\ call \in [op : {"search_by_text"}, keywords : Keywords,
                 max_results : 1..MaxTextResultsArg, search_mode : SearchModes,
                 fts_ok : {FALSE}, opencc : BOOLEAN, fts_error : FtsErrors]
    /\ ret = NoRet

SpecTextFault == InitTextFault /\ [][search_by_text_call]_vars

\* C31: in ranked-only ('fts') mode a failure of the full-text index query
\* makes search_by_text return an empty list (it does not raise and changes
\* no state); in smart mode the same failure is followed by the substring
\* fallback: the call returns the substring result for the same tokens.
C31_FailedIndexQueryDegrades ==
    (TextReturned /\ ~call.fts_ok /\ Tokens # <<>>) =>
        /\ call.search_mode = "fts" => ret.value = <<>>
        /\ call.search_mode = "smart" =>
              /\ Len(ret.value) = Min(Cardinality(Substring), call.max_results)
              /\ \A k \in DOMAIN ret.value : ret.value[k].search_method = "LIKE"

----------------------------------------------------------------------------
(* _get_all_variants on any list of tokens *)

\* tokens in a list given to _get_all_variants
MaxTokens == 3

\* tokens _tokenize_text produces: words in either script, a Latin word, a
\* word that reads the same in both scripts
TokenLists ==
    SeqsUpTo({ <<"s1", "s2">>, <<"t1", "t2">>, <<"a", "b">>, <<"zh", "zh">>, <<"zh", "s1">> },
             MaxTokens)

InitVariants ==
    /\ image_features = <<>>
    /\ sqlite_sequence = 0
    /\ Quiet
    /\ call \in [op : {"_get_all_variants"}, keywords : TokenLists, opencc : BOOLEAN]
    /\ ret = NoRet

get_all_variants_call ==
    /\ call.op = "_get_all_variants"
    /\ ret = NoRet
    /\ ret' = Return(_get_all_variants(call.keywords, call.opencc))
    /\ UNCHANGED <<call, store>>

SpecVariants == InitVariants /\ [][get_all_variants_call]_vars

RECURSIVE IsSubsequence(_, _)
\* the elements of s occur in l in the order they have in s
IsSubsequence(s, l) ==
    IF s = <<>> THEN TRUE
    ELSE IF l = <<>> THEN FALSE
    ELSE IF Head(s) = Head(l) THEN IsSubsequence(Tail(s), Tail(l))
    ELSE IsSubsequence(s, Tail(l))

\* C32: _get_all_variants(tokens) returns every input token in its original
\* relative order together with each token's simplified and traditional
\* conversions that differ from it, and the returned list contains no element
\* twice (stated of a searcher whose converters were created).
C32_VariantsOrderedCompleteDistinct ==
    (call.op = "_get_all_variants" /\ ret.returned /\ call.opencc) =>
        /\ IsSubsequence(call.keywords, ret.value)
        /\ \A k \in DOMAIN call.keywords :
              /\ InList(cc_s2t(call.keywords[k]), ret.value)
              /\ InList(cc_t2s(call.keywords[k]), ret.value)
        /\ \A i, j \in DOMAIN ret.value : ret.value[i] = ret.value[j] => i = j

----------------------------------------------------------------------------
(* Fingerprints as bits *)

\* the bits set in a hex character
DigitBits(d) == {k \in 0..3 : (d \div (2 ^ k)) % 2 = 1}

RECURSIVE DifferingBits(_, _)
\* the number of bits in which two fingerprints of one length differ
DifferingBits(hash1, hash2) ==
    IF hash1 = <<>> THEN 0
    ELSE Cardinality((DigitBits(Head(hash1)) \ DigitBits(Head(hash2)))
                     \cup (DigitBits(Head(hash2)) \ DigitBits(Head(hash1))))
         + DifferingBits(Tail(hash1), Tail(hash2))

\* C33: for two 16-hex-character (64-bit) perceptual hashes, the distance
\* compared against threshold and used in similarity = 1 - distance/64 equals
\* the number of differing bits among the 64 bits of the two fingerprints.
C33_DistanceCountsDifferingBits ==
    (/\ call.op = "_hamming_distance" /\ ret.returned
     /\ Len(call.hash1) = PHashLen /\ Len(call.hash2) = PHashLen) =>
        ret.value = DifferingBits(call.hash1, call.hash2)

----------------------------------------------------------------------------
(* update_archived_file_paths as one transaction *)

\* the pairs of the call and what executemany did with them
PathPairs == call.path_mappings
Executed == RewritePaths(ret.before, PathPairs)

\* the pairs are relocations, as check_and_archive_images lists them: every
\* file is moved once, and to a path that is none of the old paths
Relocations ==
    /\ \A j, k \in DOMAIN PathPairs : PathPairs[j][1] = PathPairs[k][1] => j = k
    /\ \A j, k \in DOMAIN PathPairs : PathPairs[j][2] # PathPairs[k][1]

----------------------------------------------------------------------------
(* The batch loops of scheduled_ocr_task and ocr_command, a call of
   process_ocr_pending_images taken as one step on a store that no other
   thread touches, with no limit on how often a writer's UPDATE may fail *)

\* the safety threshold of ocr_command's loop
max_iterations == 100

\* scheduled_ocr_task's iteration, a counter without a limit that the task
\* only logs, is kept modulo this number
IterationWrap == 2

\* the two coroutines that loop over batches
Drivers == {"scheduled_ocr_task", "ocr_command"}

\* what becomes of each claimed record: the engine's outcome, and whether the
\* writer's UPDATE commits
RecordOutcomes(pairs) ==
    [{pairs[k][1] : k \in DOMAIN pairs} -> [result : EngineResults, ok : BOOLEAN]]

\* the for loop of process_ocr_pending_images over the claimed pairs, with the
\* engine acquired: the table it leaves and stats['processed']
RECURSIVE process_records(_, _, _, _)
process_records(t, fs, pairs, out) ==
    IF pairs = <<>> THEN [table |-> t, processed |-> 0]
    ELSE LET img_id == pairs[1][1]
             f == fs[pairs[1][2]]
             u == IF ~IsFile(f) \/ f = "empty" THEN _mark_ocr_skipped(t, img_id)
                  ELSE _update_ocr_result(t, img_id, EngineText(out[img_id].result), "completed", 0)
             rest == process_records(IF out[img_id].ok THEN u ELSE t, fs, Tail(pairs), out)
         IN  [table |-> rest.table,
              processed |-> rest.processed + (IF IsFile(f) THEN 1 ELSE 0)]

InitLoop ==
    /\ \E n \in 0..Min(MaxId, Len(DownloadPathList)) :
          \E st \in [1..n -> RowStates], fs \in [1..n -> Hashes \cup {"missing", "empty"}] :
             /\ \A i \in 1..n : fs[i] \in FileStates(DownloadPathList[i])
             /\ image_features =
                  [i \in 1..n |->
                      [NewRow(DownloadPathList[i], NewFileContent(DownloadPathList[i]),
                              MessageIdOf(DownloadPathList[i]))
                         EXCEPT !.ocr_status = st[i].ocr_status,
                                !.ocr_fail_count = st[i].ocr_fail_count,
                                !.ocr_text = st[i].ocr_text]]
             /\ files = [p \in Paths |->
                           IF \E i \in 1..n : DownloadPathList[i] = p
                           THEN fs[CHOOSE i \in 1..n : DownloadPathList[i] = p]
                           ELSE "missing"]
    /\ sqlite_sequence = Len(image_features)
    /\ ocr_engine = "None"
    /\ pc = [b \in Batches |-> "idle"]
    /\ pending_images = [b \in Batches |-> <<>>]
    /\ stats = [b \in Batches |-> ZeroStats]
    /\ archive_moves = <<>>
    /\ last_override = NoOverride
    /\ last_claim = NoClaim
    /\ calls = 0
    /\ events = 0
    /\ image_text_search = IndexOf(image_features)
    /\ _db_lock = "free"
    /\ conn = OpenConn
    /\ threads = [t \in Threads |-> "idle"]
    /\ task = [pc |-> "idle", iteration |-> 0, processed |-> 0]
    /\ call \in [op : Drivers]
    /\ ret = NoRet

\* a step of either coroutine; image_features' is the step's own
LoopStep(new) ==
    /\ task' = new
    /\ Indexed
    /\ UNCHANGED <<sqlite_sequence, files, ocr_engine, pc, pending_images,
                   stats, archive_moves, last_override, last_claim, calls, events,
                   call, ret, _db_lock, conn, threads>>

\* pending_count = searcher.get_pending_ocr_count(OCR_MAX_RETRIES);
\* if pending_count == 0: report "no pending images" and return
loop_start(sent) ==
    /\ task.pc = "idle"
    /\ image_features' = image_features
    /\ LoopStep([task EXCEPT !.pc = IF get_pending_ocr_count(image_features, OCR_MAX_RETRIES) = 0
                                    THEN Ended(sent) ELSE "loop"])

\* the loop is left at its head: `while iteration < max_iterations` is false
\* (ocr_command; scheduled_ocr_task has `while True`), or remaining == 0
loop_break(sent) ==
    /\ task.pc = "loop"
    /\ \/ call.op = "ocr_command" /\ task.iteration >= max_iterations
       \/ get_pending_ocr_count(image_features, OCR_MAX_RETRIES) = 0
    /\ image_features' = image_features
    /\ LoopStep([task EXCEPT !.pc = Ended(sent)])

\* one pass of the loop body: iteration += 1; remaining > 0;
\* stats = await process_ocr_pending_images(OCR_BATCH_SIZE, OCR_MAX_RETRIES),
\* which goes through no record when the engine cannot be acquired;
\* if stats['processed'] == 0: break
loop_batch(sent, pairs, engine, out) ==
    /\ task.pc = "loop"
    /\ call.op = "ocr_command" => task.iteration < max_iterations
    /\ get_pending_ocr_count(image_features, OCR_MAX_RETRIES) # 0
    /\ LET batch == IF engine THEN process_records(image_features, files, pairs, out)
                    ELSE [table |-> image_features, processed |-> 0]
       IN  /\ image_features' = batch.table
           /\ LoopStep([pc |-> IF batch.processed = 0 THEN Ended(sent) ELSE "loop",
                        iteration |-> IF call.op = "ocr_command" THEN task.iteration + 1
                                      ELSE (task.iteration + 1) % IterationWrap,
                        processed |-> batch.processed])

NextLoop ==
    \/ \E sent \in BOOLEAN : loop_start(sent)
    \/ \E sent \in BOOLEAN : loop_break(sent)
    \/ \E sent \in BOOLEAN, engine \in BOOLEAN :
          \E pairs \in SelectPending(image_features, OCR_BATCH_SIZE, OCR_MAX_RETRIES) :
             \E out \in RecordOutcomes(pairs) : loop_batch(sent, pairs, engine, out)

\* the event loop keeps running a coroutine that can take a step
SpecLoop == InitLoop /\ [][NextLoop]_vars /\ WF_vars(NextLoop)

\* C35: the batch loops of scheduled_ocr_task and ocr_command terminate: under
\* every outcome of per-record processing, including store writes that fail
\* silently and leave a record 'pending', the task eventually stops calling
\* process_ocr_pending_images.
C35_BatchLoopsTerminate == <>(task.pc \in {Ended(TRUE), Ended(FALSE)})

\* the part of C35 that is about ocr_command
C35_CommandLoopTerminates == call.op = "ocr_command" => C35_BatchLoopsTerminate
----------------------------------------------------------------------------
(* The duplicate check of the photo handler *)

\* searcher.search_similar_images(temp_save_path, threshold=0, max_results=1)
\* has returned, and `exact_match_results and
\* exact_match_results[0].get('similarity') == 1.0` is true
TreatedAsIndexed ==
    /\ SearchReturned
    /\ call.threshold = 0
    /\ call.max_results = 1
    /\ ret.value # <<>>
    /\ ret.value[1].similarity = HashBits

\* C36: the bot treats an incoming photo as already indexed only if a stored
\* record has the same content hash as the photo:
\* search_similar_images(path, threshold=0, max_results=1) yields a first
\* result with similarity 1.0 only for a content-hash match.
C36_IndexedOnlyOnContentHashMatch ==
    TreatedAsIndexed =>
        /\ ret.value[1].file_hash = call.query_features.file_hash
        /\ \E i \in DOMAIN image_features :
              image_features[i].file_hash = call.query_features.file_hash
----------------------------------------------------------------------------
(* The bot's runs in which every call of process_ocr_pending_images has the
   same max_retries *)

\* Next with max_retries = MaxRetriesArg in every call
NextFixedRetries ==
    \/ \E p \in DownloadPaths : handle_photo(p)
    \/ \E i \in Ids : reindex(i)
    \/ \E b \in Batches, n \in BatchSizeArgs : process_claim_empty(b, n, MaxRetriesArg)
    \/ \E b \in Batches, n \in BatchSizeArgs :
          \E sel \in SelectPending(image_features, n, MaxRetriesArg) :
             process_claim(b, n, MaxRetriesArg, sel)
    \/ \E b \in Batches, n \in BatchSizeArgs :
          \E sel \in SelectPending(image_features, n, MaxRetriesArg) :
             process_claim_error(b, n, MaxRetriesArg, sel)
    \/ \E b \in Batches, ok \in BOOLEAN : process_missing(b, ok)
    \/ \E b \in Batches : process_exists(b)
    \/ \E b \in Batches, ok \in BOOLEAN : process_getsize_error(b, ok)
    \/ \E b \in Batches, ok \in BOOLEAN : process_empty(b, ok)
    \/ \E b \in Batches, ok \in BOOLEAN : process_recognize_raises(b, ok)
    \/ \E b \in Batches, result \in EngineResults, ok \in BOOLEAN : process_recognize(b, result, ok)
    \/ \E b \in Batches : process_finally(b)
    \/ \E b \in Batches : process_cleanup(b)
    \/ \E m \in MsgIds, t \in ManualTexts, i \in Ids : set_manual_ocr_result(m, t, i)
    \/ \E h \in Hashes, t \in ManualTexts, i \in Ids : set_manual_ocr_result_by_hash(h, t, i)
    \/ \E m \in MsgIds, i \in Ids : clear_ocr_result(m, i)
    \/ \E p \in Paths, to \in {"missing", "empty"} : DamageFile(p, to)
    \/ \E n \in 1..MaxCountArg : archive_move_files(n)
    \/ archive_update_paths

SpecFixedRetries == Init /\ [][NextFixedRetries]_vars

\* C37: with a fixed max_retries, no record's ocr_fail_count ever exceeds
\* max_retries, in every execution including ones where two batches overlap
\* and both claimed the same failed record.
C37_FailCountWithinMaxRetries ==
    \A i \in DOMAIN image_features : image_features[i].ocr_fail_count <= MaxRetriesArg
----------------------------------------------------------------------------
(* The statistics of a batch against the store *)

\* stats['succeeded'] + stats['failed'] + stats['skipped'] of batch b
Outcomes(st) == st.succeeded + st.failed + st.skipped

\* the step counts one more record of batch b under `field`
Counts(b, field) == stats'[b][field] = stats[b][field] + 1

\* the step leaves the record that batch b is processing stored with `status`
Stores(b, status) ==
    /\ CurId(b) \in DOMAIN image_features'
    /\ image_features'[CurId(b)].ocr_status = status

\* C38: the statistics returned by process_ocr_pending_images agree with the
\* store: stats.succeeded equals the number of records whose stored status this
\* batch set to 'completed', stats.failed the number it set to 'failed',
\* stats.skipped the number it set to 'skipped', and succeeded + failed +
\* skipped equals the number of claimed records, also when a per-record store
\* write fails.  Step by step: a record is counted under an outcome exactly in
\* a step that stores that status for it, every claimed record the loop is
\* done with is counted once, and the call returns with none left.
C38_StatsAgreeWithStore ==
    [][\A b \in Batches :
         /\ Counts(b, "succeeded") => Stores(b, "completed")
         /\ Counts(b, "failed") =>
               /\ Stores(b, "failed")
               /\ CurId(b) \in DOMAIN image_features
               /\ image_features'[CurId(b)].ocr_fail_count =
                     image_features[CurId(b)].ocr_fail_count + 1
         /\ Counts(b, "skipped") => Stores(b, "skipped")
         /\ (pc[b] \notin ReturnPcs /\ Len(pending_images'[b]) = Len(pending_images[b]) - 1)
               => Outcomes(stats'[b]) = Outcomes(stats[b]) + 1
         /\ (pc[b] \notin ReturnPcs /\ pc'[b] \in ReturnPcs) => pending_images'[b] = <<>>]_vars
====
